---- MODULE Spec2Model ----
(***************************************************************************)
(* Whisper Voice Input: the session coordinator (src/src/app.py), the      *)
(* audio capture engine (src/src/audio/recorder.py, processor.py), the     *)
(* hotkey manager (src/src/input/hotkey.py) and the recognition result     *)
(* (src/src/recognition/base.py, cleanup.py).                              *)
(*                                                                         *)
(* Execution contexts: the Qt main thread (coordination context) runs one  *)
(* handler at a time; the hotkey listener thread, the audio callback       *)
(* thread and the transcription worker threads run beside it and reach the *)
(* main thread only through posted events (eventq).  A signal emitted on   *)
(* the main thread is delivered synchronously (direct connection), a       *)
(* signal emitted on a worker thread is queued.  An exception that leaves  *)
(* a handler is logged by the excepthook of main.py and the event loop     *)
(* goes on.                                                                *)
(***************************************************************************)
EXTENDS Integers, Sequences, FiniteSets, TLC

VARIABLES
    state,          \* VoiceInputApp._state
    message,        \* message last shown with the state (widget.set_state)
    processing,     \* VoiceInputApp._processing
    recorder,       \* AudioRecorder: _recording, _audio_data, _stream
    open_streams,   \* input streams opened and not closed (audio subsystem)
    listener,       \* HotkeyManager._listener is not None
    listeners,      \* keyboard listener threads started and not stopped
    pressed_keys,   \* HotkeyManager._pressed_keys
    held,           \* keys that are physically down (the keyboard)
    hotkey,         \* HotkeyManager._hotkey
    eventq,         \* events posted to the main thread, oldest first
    workers,        \* transcription worker threads that are running
    timers,         \* pending QTimer.singleShot auto-reverts, oldest first
    cycle,          \* number of accepted stops of a recording so far
    quitted,        \* app.quit() was reached: the event loop has ended
    emitted,        \* state_changed events emitted by the last handler
    injected,       \* texts the last handler handed to inject_text
    terminal,       \* number of terminal events emitted for the latest cycle
    recognized,     \* what the recognizer did for the event the last handler got
    audio_path,     \* what stop() returned to the last handler
    found,          \* the recorder as the last direct call of its methods found it
    settings_model, \* Settings.model
    settings_engine, \* Settings.engine
    settings_api_key, \* Settings.openai_api_key
    local_recognizer, \* LocalWhisperRecognizer: _model_name, _model, _loading
    api_recognizer, \* APIWhisperRecognizer: _api_key, _client
    temp_files,     \* recordings stop() handed to the coordinator that still exist
    widget,         \* FloatingWidget: _size_key, _size, and the key last asked for
    steps,          \* the threads inside AudioRecorder's methods: where they are, who holds _lock
    callbacks,      \* matched-chord callback threads started and not finished; HotkeyManager._lock
    callers,        \* the threads inside LocalWhisperRecognizer.transcribe
    transcribing,   \* where a thread inside the local recognizer's calls is
    handled,        \* the cycle whose terminal event was handled last
    uncaught,       \* the last handler was left by an uncaught exception
    last            \* what the last step was

vars == <<state, message, processing, recorder, open_streams, listener,
          listeners, pressed_keys, held, hotkey, eventq, workers, timers, cycle, quitted,
          emitted, injected, terminal, recognized, audio_path, found,
          settings_model, settings_engine, settings_api_key,
          local_recognizer, api_recognizer, temp_files, widget,
          steps, callbacks, callers,
          transcribing, handled, uncaught, last>>

\* the variables of the threads followed step by step
StepVars == <<steps, callbacks, callers>>

(***************************************************************************)
(* Bounds                                                                  *)
(***************************************************************************)
MaxCycles == 1
MaxChunks == 2
MaxQueue == 1
MaxStreams == 2
\* longest of the short texts cleanup_text is called with
MaxText == 3

(***************************************************************************)
(* Program constants                                                       *)
(***************************************************************************)
STATE_IDLE == "idle"
STATE_RECORDING == "recording"
STATE_PROCESSING == "processing"
STATE_ERROR == "error"
SAMPLE_RATE == 16000
Int16Scale == 32767
SilenceThreshold == 10
DoneDelay == 1000
NoSpeechDelay == 2000
ErrorDelay == 3000
DEFAULT_HOTKEY == [ctrl |-> TRUE, shift |-> TRUE, alt |-> FALSE, key |-> "space"]

None == "<None>"

(***************************************************************************)
(* Inputs                                                                  *)
(***************************************************************************)
\* float32 amplitudes are written in units of 1/AmpScale
AmpScale == 100000
\* a chunk delivered by the audio subsystem: len samples of magnitude amp
ChunkKinds == {[len |-> 4000, amp |-> 40], [len |-> 4000, amp |-> 22]}
\* names of the input devices the audio subsystem lists, and the names that
\* can be configured (None: the system default)
AvailableDevices == {"mic"}
DeviceNames == {None, "mic", "unplugged"}
\* keys the listener can report, already normalized
Keys == {"ctrl_l", "shift_l", "space"}

(***************************************************************************)
(* Sequences of characters                                                 *)
(***************************************************************************)
Whitespace == {" ", "\t", "\n", "\r"}

RECURSIVE LStrip(_)
LStrip(s) == IF s # <<>> /\ Head(s) \in Whitespace THEN LStrip(Tail(s)) ELSE s

RECURSIVE RStrip(_)
RStrip(s) ==
    IF s # <<>> /\ s[Len(s)] \in Whitespace
    THEN RStrip(SubSeq(s, 1, Len(s) - 1)) ELSE s

\* str.strip()
Strip(s) == RStrip(LStrip(s))

(***************************************************************************)
(* AudioRecorder                                                           *)
(***************************************************************************)
\* stream: "none", "open" (created, not started) or "active"; stream_device:
\* the device the stream was opened on
RecorderInit ==
    [recording |-> FALSE, audio_data |-> <<>>, stream |-> "none",
     device |-> None, stream_device |-> None]

\* set_device that starts the buffer afresh for the new device
RecorderSetDevice_clears(r, device) ==
    [r EXCEPT !.device = device, !.audio_data = <<>>]

\* AudioRecorder.set_device
RecorderSetDevice(r, device) == [r EXCEPT !.device = device]

\* the lookup of the configured device in get_devices(): its id when it is
\* there, None (the default device) otherwise
DeviceId(device) == IF device \in AvailableDevices THEN device ELSE None

\* _audio_callback that puts the newest chunk first
AudioCallbackBody_newest_first(r, chunk) ==
    IF r.recording THEN [r EXCEPT !.audio_data = <<chunk>> \o @] ELSE r

\* AudioRecorder._audio_callback: a chunk is kept only while recording
AudioCallbackBody(r, chunk) ==
    IF r.recording THEN [r EXCEPT !.audio_data = Append(@, chunk)] ELSE r

\* start() that does not look at the recording flag
RecorderStart_unguarded(r, open, env) ==
    LET r1 == [r EXCEPT !.audio_data = <<>>, !.recording = TRUE]
        r2 == [r1 EXCEPT !.stream_device = DeviceId(r.device)]
    IN
    CASE env = "open_fail" ->
           [rec |-> r1, open |-> open, raised |-> TRUE]
      [] env = "start_fail" ->
           [rec |-> [r2 EXCEPT !.stream = "open"], open |-> open + 1,
            raised |-> TRUE]
      [] OTHER ->
           [rec |-> [r2 EXCEPT !.stream = "active"], open |-> open + 1,
            raised |-> FALSE]

\* AudioRecorder.start; env is what the audio subsystem does:
\* "ok", "open_fail" (InputStream() raises), "start_fail" (stream.start() raises)
RecorderStart(r, open, env) ==
    IF r.recording
    THEN [rec |-> r, open |-> open, raised |-> FALSE]
    ELSE LET r1 == [r EXCEPT !.audio_data = <<>>, !.recording = TRUE]
             r2 == [r1 EXCEPT !.stream_device = DeviceId(r.device)]
         IN
         CASE env = "open_fail" ->
                [rec |-> r1, open |-> open, raised |-> TRUE]
           [] env = "start_fail" ->
                [rec |-> [r2 EXCEPT !.stream = "open"], open |-> open + 1,
                 raised |-> TRUE]
           [] OTHER ->
                [rec |-> [r2 EXCEPT !.stream = "active"], open |-> open + 1,
                 raised |-> FALSE]

\* (audio * 32767).astype(np.int16) on a sample of magnitude amp / AmpScale
ToInt16(amp) == (amp * Int16Scale) \div AmpScale

\* np.concatenate and the int16 conversion: the recording written to the file
FinishedRecording(chunks) ==
    [i \in 1..Len(chunks) |-> [len |-> chunks[i].len, amp |-> ToInt16(chunks[i].amp)]]

\* stream.stop(); stream.close(); self._stream = None.  sounddevice's stop()
\* and close() ignore the errors of the audio subsystem (ignore_errors=True),
\* so the teardown does not raise
CloseStream(r, open) ==
    IF r.stream # "none"
    THEN [rec |-> [r EXCEPT !.stream = "none", !.stream_device = None],
          open |-> open - 1]
    ELSE [rec |-> r, open |-> open]

\* stop() that writes a file also when nothing was captured
RecorderStop_writes_empty(r, open, env) ==
    IF ~r.recording
    THEN [rec |-> r, open |-> open, raised |-> FALSE, is_none |-> TRUE, path |-> <<>>]
    ELSE LET c == CloseStream([r EXCEPT !.recording = FALSE], open)
             r2 == c.rec
             r3 == [r2 EXCEPT !.audio_data = <<>>]
         IN  IF env = "write_fail"
             THEN [rec |-> r3, open |-> c.open, raised |-> TRUE,
                   is_none |-> TRUE, path |-> <<>>]
             ELSE [rec |-> r3, open |-> c.open, raised |-> FALSE,
                   is_none |-> FALSE,
                   path |-> FinishedRecording(r2.audio_data)]

\* AudioRecorder.stop; env: "ok", "write_fail" (the temporary file cannot be
\* written).  is_none: stop() returned None; path: the recording in the file
\* it returned
RecorderStop(r, open, env) ==
    IF ~r.recording
    THEN [rec |-> r, open |-> open, raised |-> FALSE, is_none |-> TRUE, path |-> <<>>]
    ELSE LET c == CloseStream([r EXCEPT !.recording = FALSE], open)
             r2 == c.rec
         IN  IF r2.audio_data = <<>>
             THEN [rec |-> r2, open |-> c.open, raised |-> FALSE,
                   is_none |-> TRUE, path |-> <<>>]
             ELSE LET r3 == [r2 EXCEPT !.audio_data = <<>>] IN
                  IF env = "write_fail"
                  THEN [rec |-> r3, open |-> c.open, raised |-> TRUE,
                        is_none |-> TRUE, path |-> <<>>]
                  ELSE [rec |-> r3, open |-> c.open, raised |-> FALSE,
                        is_none |-> FALSE,
                        path |-> FinishedRecording(r2.audio_data)]

\* cancel() that does not tear the stream down
RecorderCancel_keeps_stream(r, open) ==
    [rec |-> [r EXCEPT !.recording = FALSE, !.audio_data = <<>>], open |-> open]

\* AudioRecorder.cancel
RecorderCancel(r, open) ==
    CloseStream([r EXCEPT !.recording = FALSE, !.audio_data = <<>>], open)

RECURSIVE SampleCount(_)
SampleCount(audio) ==
    IF audio = <<>> THEN 0 ELSE Head(audio).len + SampleCount(Tail(audio))

RECURSIVE AbsSum(_)
AbsSum(audio) ==
    IF audio = <<>> THEN 0
    ELSE Head(audio).len * Head(audio).amp + AbsSum(Tail(audio))

\* validate_audio without the check of the length
validate_audio_any_length(audio) ==
    IF AbsSum(audio) < SilenceThreshold * SampleCount(audio) THEN FALSE
    ELSE TRUE

\* validate_audio on the recording read back from the file
validate_audio(audio) ==
    LET min_samples == SAMPLE_RATE \div 2 IN
    IF SampleCount(audio) < min_samples THEN FALSE
    ELSE IF AbsSum(audio) < SilenceThreshold * SampleCount(audio) THEN FALSE
    ELSE TRUE

(***************************************************************************)
(* HotkeyManager                                                           *)
(***************************************************************************)
\* HotkeyManager.__init__: self._hotkey = {}
EmptyHotkey == [x \in {} |-> FALSE]

\* str.lower() on the key names that occur
LowerKey(k) == IF k = "A" THEN "a" ELSE k

\* _check_hotkey that asks only for what the chord requires
check_hotkey_superset(hk, pressed) ==
    IF DOMAIN hk = {} THEN FALSE
    ELSE
    LET key_name == LowerKey(hk.key)
        ctrl_pressed == "ctrl_l" \in pressed \/ "ctrl_r" \in pressed
        shift_pressed == \E k \in {"shift_l", "shift_r", "shift"} : k \in pressed
        alt_pressed == \E k \in {"alt_l", "alt_r", "alt"} : k \in pressed
    IN  /\ (hk.ctrl => ctrl_pressed)
        /\ (hk.shift => shift_pressed)
        /\ (hk.alt => alt_pressed)
        /\ (key_name # "" => key_name \in pressed)

\* HotkeyManager._check_hotkey
check_hotkey(hk, pressed) ==
    IF DOMAIN hk = {} THEN FALSE
    ELSE
    LET key_name == LowerKey(hk.key)
        ctrl_pressed == "ctrl_l" \in pressed \/ "ctrl_r" \in pressed
        shift_pressed == \E k \in {"shift_l", "shift_r", "shift"} : k \in pressed
        alt_pressed == \E k \in {"alt_l", "alt_r", "alt"} : k \in pressed
    IN  /\ hk.ctrl = ctrl_pressed
        /\ hk.shift = shift_pressed
        /\ hk.alt = alt_pressed
        /\ (key_name # "" => key_name \in pressed)

\* start() that does not look at self._listener
HotkeyStart_unguarded(l, n) ==
    [listener |-> TRUE, listeners |-> n + 1]

\* HotkeyManager.start: l is "self._listener is not None", n the number of
\* listener threads
HotkeyStart(l, n) ==
    IF l THEN [listener |-> l, listeners |-> n]
    ELSE [listener |-> TRUE, listeners |-> n + 1]

\* stop() that leaves the pressed-key set alone
HotkeyStop_keeps_keys(l, n, pressed) ==
    [listener |-> FALSE, listeners |-> IF l THEN n - 1 ELSE n,
     pressed_keys |-> pressed]

\* HotkeyManager.stop
HotkeyStop(l, n, pressed) ==
    [listener |-> FALSE, listeners |-> IF l THEN n - 1 ELSE n,
     pressed_keys |-> {}]

(***************************************************************************)
(* cleanup_text (src/src/recognition/cleanup.py) on sequences of           *)
(* characters; every re.sub is a left-to-right scan for non-overlapping    *)
(* matches, as in Python's re module.                                      *)
(***************************************************************************)
LowerLetters == <<"a","b","c","d","e","f","g","h","i","j","k","l","m",
                  "n","o","p","q","r","s","t","u","v","w","x","y","z">>
UpperLetters == <<"A","B","C","D","E","F","G","H","I","J","K","L","M",
                  "N","O","P","Q","R","S","T","U","V","W","X","Y","Z">>
Digits == {"0","1","2","3","4","5","6","7","8","9"}
Range(f) == {f[i] : i \in DOMAIN f}
IsLower(c) == c \in Range(LowerLetters)
IsUpper(c) == c \in Range(UpperLetters)
IsLetter(c) == IsLower(c) \/ IsUpper(c)
\* \w
IsWord(c) == IsLetter(c) \/ c \in Digits \/ c = "_"
\* \s
IsSpace(c) == c \in Whitespace
\* [.,!?;:]
Punct == {".", ",", "!", "?", ";", ":"}
\* [.!?]
SentenceEnd == {".", "!", "?"}

IndexOf(seq, c) == CHOOSE i \in DOMAIN seq : seq[i] = c
\* str.upper() and str.lower() on one character
ToUpper(c) == IF IsLower(c) THEN UpperLetters[IndexOf(LowerLetters, c)] ELSE c
ToLower(c) == IF IsUpper(c) THEN LowerLetters[IndexOf(UpperLetters, c)] ELSE c

\* the filler words as sequences of characters
FILLER_WORDS ==
    << <<"u","m">>, <<"u","h">>, <<"e","r">>, <<"a","h">>,
       <<"l","i","k","e">>, <<"y","o","u"," ","k","n","o","w">>,
       <<"i"," ","m","e","a","n">>,
       <<"b","a","s","i","c","a","l","l","y">>,
       <<"a","c","t","u","a","l","l","y">>,
       <<"l","i","t","e","r","a","l","l","y">>,
       <<"s","o">>, <<"w","e","l","l">> >>

\* is there a word character at position i of s (none outside the string)
WordAt(s, i) == i >= 1 /\ i <= Len(s) /\ IsWord(s[i])
\* \b between positions i-1 and i
Boundary(s, i) == WordAt(s, i - 1) # WordAt(s, i)

\* does the filler f occur at position i of s, ignoring case
FillerAt(s, f, i) ==
    /\ i + Len(f) - 1 <= Len(s)
    /\ \A k \in 1..Len(f) : ToLower(s[i + k - 1]) = f[k]
    /\ Boundary(s, i)
    /\ Boundary(s, i + Len(f))

\* first position at or after i that holds no whitespace
RECURSIVE SkipSpace(_, _)
SkipSpace(s, i) == IF i <= Len(s) /\ IsSpace(s[i]) THEN SkipSpace(s, i + 1) ELSE i

\* re.sub(rf"\b{filler}\b,?\s*", "", s, flags=re.IGNORECASE) from position i
RECURSIVE RemoveFiller(_, _, _)
RemoveFiller(s, f, i) ==
    IF i > Len(s) THEN <<>>
    ELSE IF FillerAt(s, f, i)
         THEN LET j == i + Len(f)
                  k == IF j <= Len(s) /\ s[j] = "," THEN j + 1 ELSE j
              IN  RemoveFiller(s, f, SkipSpace(s, k))
         ELSE <<s[i]>> \o RemoveFiller(s, f, i + 1)

RECURSIVE RemoveFillers(_, _)
RemoveFillers(s, n) ==
    IF n > Len(FILLER_WORDS) THEN s
    ELSE RemoveFillers(RemoveFiller(s, FILLER_WORDS[n], 1), n + 1)

\* re.sub(r"\s+", " ", s)
RECURSIVE CollapseSpaces(_, _)
CollapseSpaces(s, i) ==
    IF i > Len(s) THEN <<>>
    ELSE IF IsSpace(s[i]) THEN <<" ">> \o CollapseSpaces(s, SkipSpace(s, i))
         ELSE <<s[i]>> \o CollapseSpaces(s, i + 1)

\* re.sub(r"\s+([.,!?;:])", r"\1", s)
RECURSIVE SpaceBeforePunct(_, _)
SpaceBeforePunct(s, i) ==
    IF i > Len(s) THEN <<>>
    ELSE LET j == SkipSpace(s, i) IN
         IF IsSpace(s[i]) /\ j <= Len(s) /\ s[j] \in Punct
         THEN <<s[j]>> \o SpaceBeforePunct(s, j + 1)
         ELSE <<s[i]>> \o SpaceBeforePunct(s, i + 1)

\* re.sub(r"([.,!?;:])([A-Za-z])", r"\1 \2", s)
RECURSIVE SpaceAfterPunct(_, _)
SpaceAfterPunct(s, i) ==
    IF i > Len(s) THEN <<>>
    ELSE IF s[i] \in Punct /\ i + 1 <= Len(s) /\ IsLetter(s[i + 1])
         THEN <<s[i], " ", s[i + 1]>> \o SpaceAfterPunct(s, i + 2)
         ELSE <<s[i]>> \o SpaceAfterPunct(s, i + 1)

\* result[0].upper() + result[1:]
CapitalizeFirst(s) == IF s = <<>> THEN s ELSE <<ToUpper(Head(s))>> \o Tail(s)

\* re.sub(r"([.!?]\s+)([a-z])", lambda m: m.group(1) + m.group(2).upper(), s)
RECURSIVE CapitalizeSentences(_, _)
CapitalizeSentences(s, i) ==
    IF i > Len(s) THEN <<>>
    ELSE LET j == SkipSpace(s, i + 1) IN
         IF s[i] \in SentenceEnd /\ j > i + 1 /\ j <= Len(s) /\ IsLower(s[j])
         THEN SubSeq(s, i, j - 1) \o <<ToUpper(s[j])>> \o CapitalizeSentences(s, j + 1)
         ELSE <<s[i]>> \o CapitalizeSentences(s, i + 1)

\* first position at or after i that does not hold the character c
RECURSIVE SkipChar(_, _, _)
SkipChar(s, c, i) == IF i <= Len(s) /\ s[i] = c THEN SkipChar(s, c, i + 1) ELSE i

\* re.sub(r"([.,!?;:])\1+", r"\1", s)
RECURSIVE DoublePunct(_, _)
DoublePunct(s, i) ==
    IF i > Len(s) THEN <<>>
    ELSE IF s[i] \in Punct
         THEN <<s[i]>> \o DoublePunct(s, SkipChar(s, s[i], i + 1))
         ELSE <<s[i]>> \o DoublePunct(s, i + 1)

\* re.sub(r"^[.,!?;:\s]+", "", s)
RECURSIVE OrphanPunct(_)
OrphanPunct(s) ==
    IF s # <<>> /\ (Head(s) \in Punct \/ IsSpace(Head(s)))
    THEN OrphanPunct(Tail(s)) ELSE s

\* cleanup_text that leaves the first letter as it is
cleanup_text_no_capital(text) ==
    IF text = <<>> THEN <<>>
    ELSE LET r1 == RemoveFillers(text, 1)
             r2 == CollapseSpaces(r1, 1)
             r3 == SpaceBeforePunct(r2, 1)
             r4 == SpaceAfterPunct(r3, 1)
             r5 == Strip(r4)
             r7 == CapitalizeSentences(r5, 1)
             r8 == DoublePunct(r7, 1)
         IN  OrphanPunct(r8)

\* cleanup_text (cleanup.py:7-70)
cleanup_text(text) ==
    IF text = <<>> THEN <<>>
    ELSE LET r1 == RemoveFillers(text, 1)
             r2 == CollapseSpaces(r1, 1)
             r3 == SpaceBeforePunct(r2, 1)
             r4 == SpaceAfterPunct(r3, 1)
             r5 == Strip(r4)
             r6 == CapitalizeFirst(r5)
             r7 == CapitalizeSentences(r6, 1)
             r8 == DoublePunct(r7, 1)
         IN  OrphanPunct(r8)

(***************************************************************************)
(* RecognitionResult and the recognizer call as the worker sees it         *)
(***************************************************************************)
\* RecognitionResult.__init__
RecognitionResult(text, error) ==
    [text |-> text, error |-> error,
     success |-> (error = None /\ Strip(text) # <<>>)]

\* raw transcripts the engine can produce
RawTexts == { <<>>, <<" ">>, <<"u","m">>, <<"u","m",","," ","h","i">> }
\* error messages a recognizer can put in its result (str(e) may be empty)
ErrorTexts == {"Failed to load Whisper model. Please check your installation."}
\* messages of exceptions raised inside _process_audio's try block
ExceptionTexts == {"TypeError"}

\* what the selected recognizer does for one call: both recognizers strip the
\* transcript and catch the engine's exceptions into an error result; "raise"
\* is an exception raised in the try block of _process_audio
\* no recognizer call was made (yet)
NoOutcome == [kind |-> "none", text |-> <<>>, error |-> None]

TranscribeOutcomes ==
    {[kind |-> "result", text |-> Strip(t), error |-> None] : t \in RawTexts}
    \cup {[kind |-> "result", text |-> <<>>, error |-> e] : e \in ErrorTexts}
    \cup {[kind |-> "raise", text |-> <<>>, error |-> e] : e \in ExceptionTexts}

(***************************************************************************)
(* LocalWhisperRecognizer (src/src/recognition/whisper_local.py).  A model *)
(* handle is written as the name of the model it was loaded for.           *)
(***************************************************************************)
DEFAULT_MODEL == "base"

\* model names that can be chosen in the settings
ModelNames == {"tiny", "base", "small"}

\* LocalWhisperRecognizer.__init__
LocalRecognizerInit(model_name) ==
    [model_name |-> model_name, model |-> None, loading |-> FALSE]

\* LocalWhisperRecognizer.set_model
set_model(r, model_name) ==
    IF model_name # r.model_name
    THEN [r EXCEPT !.model_name = model_name, !.model = None]
    ELSE r

(***************************************************************************)
(* Language hints (whisper_local.py:72-76, whisper_api.py:56-68) as        *)
(* sequences of characters                                                 *)
(***************************************************************************)
\* the keys of SUPPORTED_LANGUAGES
SUPPORTED_LANGUAGES == {<<"e","n">>, <<"e","n","-","U","S">>, <<"e","n","-","G","B">>, <<"e","n","-","Z","A">>}
DEFAULT_LANGUAGE == <<"e","n">>

\* hints a caller can pass: the supported ones, the empty string, other
\* language codes and the word "auto"
LanguageHints ==
    SUPPORTED_LANGUAGES \cup {<<>>, <<"d","e">>, <<"d","e","-","D","E">>, <<"a","u","t","o">>}

\* no language is passed to the engine (None)
NoLang == [is_none |-> TRUE, code |-> <<>>]

\* "-" in language
HasDash(s) == \E i \in DOMAIN s : s[i] = "-"

\* language.split("-")[0]
RECURSIVE BeforeDash(_)
BeforeDash(s) ==
    IF s = <<>> \/ Head(s) = "-" THEN <<>>
    ELSE <<Head(s)>> \o BeforeDash(Tail(s))

\* the local variant that passes the hint on as it is
local_language_keeps_region(language) ==
    IF language # <<>> /\ language # <<"e","n">>
    THEN [is_none |-> FALSE, code |-> language]
    ELSE NoLang

\* LocalWhisperRecognizer.transcribe: the language=lang argument of
\* self._model.transcribe
local_language(language) ==
    IF language # <<>> /\ language # <<"e","n">>
    THEN [is_none |-> FALSE,
          code |-> IF HasDash(language) THEN BeforeDash(language) ELSE language]
    ELSE NoLang

\* APIWhisperRecognizer.transcribe: kwargs["language"], set only when lang
\* is not empty
api_language(language) ==
    LET lang == IF language # <<>> /\ language # <<"e","n">>
                THEN [is_none |-> FALSE,
                      code |-> IF HasDash(language) THEN BeforeDash(language)
                               ELSE language]
                ELSE NoLang
    IN  IF ~lang.is_none /\ lang.code # <<>> THEN lang ELSE NoLang

(***************************************************************************)
(* APIWhisperRecognizer (src/src/recognition/whisper_api.py).  A client is *)
(* written as the key it was created with.                                 *)
(***************************************************************************)
ENGINE_LOCAL == "local"
ENGINE_API == "api"
DEFAULT_ENGINE == ENGINE_LOCAL
Engines == {ENGINE_LOCAL, ENGINE_API}

\* credentials that can be configured; "" is none
ApiKeys == {"", "sk-1"}

ApiKeyMissing ==
    "OpenAI API key not configured. Please add your API key in settings."
ClientFailed == "Failed to initialize OpenAI client."
InvalidKeyMessage == "Invalid OpenAI API key. Please check your settings."
QuotaMessage == "OpenAI API quota exceeded. Please check your usage."

\* str(e) of the exceptions the provider call can raise
ProviderErrors ==
    {"invalid_api_key", "Invalid_API_Key: quota", "Quota exceeded", "timeout", ""}

\* the characters of a message
Chars(s) ==
    CASE s = "invalid_api_key" -> <<"i","n","v","a","l","i","d","_","a","p","i","_","k","e","y">>
      [] s = "Invalid_API_Key: quota" -> <<"I","n","v","a","l","i","d","_","A","P","I","_","K","e","y",":"," ","q","u","o","t","a">>
      [] s = "Quota exceeded" -> <<"Q","u","o","t","a"," ","e","x","c","e","e","d","e","d">>
      [] s = "timeout" -> <<"t","i","m","e","o","u","t">>
      [] s = "" -> <<>>

\* str.lower()
Lower(t) == [i \in DOMAIN t |-> ToLower(t[i])]

\* sub in t
Contains(sub, t) ==
    \E i \in 0..(Len(t) - Len(sub)) : SubSeq(t, i + 1, i + Len(sub)) = sub

InvalidKeyMarker == <<"i","n","v","a","l","i","d","_","a","p","i","_","k","e","y">>
QuotaMarker == <<"q","u","o","t","a">>

\* the except branch that looks for the quota marker first
api_error_message_quota_first(msg) ==
    LET lower == Lower(Chars(msg)) IN
    IF Contains(QuotaMarker, lower) THEN QuotaMessage
    ELSE IF Contains(InvalidKeyMarker, lower) THEN InvalidKeyMessage
    ELSE msg

\* APIWhisperRecognizer.transcribe, the except branch: the message of the
\* result for an exception whose str() is msg
api_error_message(msg) ==
    LET lower == Lower(Chars(msg)) IN
    IF Contains(InvalidKeyMarker, lower) THEN InvalidKeyMessage
    ELSE IF Contains(QuotaMarker, lower) THEN QuotaMessage
    ELSE msg

\* APIWhisperRecognizer.__init__
ApiRecognizerInit(api_key) == [api_key |-> api_key, client |-> None]

\* APIWhisperRecognizer.set_api_key
set_api_key(r, api_key) == [r EXCEPT !.api_key = api_key, !.client = None]

\* APIWhisperRecognizer._get_client; init_ok: OpenAI(api_key=...) does not
\* raise
get_client(r, init_ok) ==
    IF r.client = None /\ r.api_key # "" /\ init_ok
    THEN [r EXCEPT !.client = r.api_key]
    ELSE r

\* what the provider does for one call: a transcript, or an exception
ProviderBehaviours ==
    {[kind |-> "text", text |-> t, msg |-> ""] : t \in RawTexts}
    \cup {[kind |-> "error", text |-> <<>>, msg |-> m] : m \in ProviderErrors}

\* transcribe that goes on to the client when no key is configured
api_transcribe_no_key_check(r, language, init_ok, provider) ==
    LET r1 == [r EXCEPT !.client = "anonymous"]
        lang == api_language(language)
    IN  IF provider.kind = "text"
        THEN [rec |-> r1, called |-> TRUE, lang |-> lang,
              result |-> RecognitionResult(Strip(provider.text), None)]
        ELSE [rec |-> r1, called |-> TRUE, lang |-> lang,
              result |-> RecognitionResult(<<>>, api_error_message(provider.msg))]

\* APIWhisperRecognizer.transcribe.  called: client.audio.transcriptions
\* .create was called; lang: the language it was given
api_transcribe(r, language, init_ok, provider) ==
    IF r.api_key = ""
    THEN [rec |-> r, called |-> FALSE, lang |-> NoLang,
          result |-> RecognitionResult(<<>>, ApiKeyMissing)]
    ELSE LET r1 == get_client(r, init_ok) IN
         IF r1.client = None
         THEN [rec |-> r1, called |-> FALSE, lang |-> NoLang,
               result |-> RecognitionResult(<<>>, ClientFailed)]
         ELSE LET lang == api_language(language) IN
              IF provider.kind = "text"
              THEN [rec |-> r1, called |-> TRUE, lang |-> lang,
                    result |-> RecognitionResult(Strip(provider.text), None)]
              ELSE [rec |-> r1, called |-> TRUE, lang |-> lang,
                    result |-> RecognitionResult(<<>>,
                                  api_error_message(provider.msg))]

RecognizerVars ==
    <<settings_model, settings_engine, settings_api_key, local_recognizer,
      api_recognizer, transcribing>>

\* the result transcribe returns when _load_model returns False
ModelLoadFailed ==
    "Failed to load Whisper model. Please check your installation."

\* str(e) when self._model is None at the call of self._model.transcribe
NoModelError == "'NoneType' object has no attribute 'transcribe'"

\* what the local engine does for one call: the text of its segments, or an
\* exception
LocalEngineBehaviours ==
    {[kind |-> "text", text |-> t, msg |-> ""] : t \in RawTexts}
    \cup {[kind |-> "error", text |-> <<>>, msg |-> "RuntimeError"]}

\* LocalWhisperRecognizer.transcribe after the engine's call
local_result(b) ==
    IF b.kind = "text" THEN RecognitionResult(Strip(b.text), None)
    ELSE RecognitionResult(<<>>, b.msg)

\* no thread is inside _process_audio.  Otherwise pc is where the worker
\* is, name the model name a load in progress was started with, engine the
\* recognizer it chose, and, once transcribe has returned, result is what it
\* returned, called whether the engine was called, hint and lang the
\* language hint and the language the engine was given, raw the message of
\* the exception the provider raised
NotTranscribing ==
    [pc |-> "idle", name |-> None, engine |-> None, hint |-> <<>>,
     lang |-> NoLang, called |-> FALSE, raw |-> None,
     result |-> RecognitionResult(<<>>, None)]

(***************************************************************************)
(* FloatingWidget: its size (src/src/ui/widget.py, constants.py)           *)
(***************************************************************************)
WIDGET_SIZES == [compact |-> 40, medium |-> 60, large |-> 80]
DEFAULT_WIDGET_SIZE == "compact"

\* the pixel values the entries of the settings window's size box show
\* ("Compact (60px)", ...), which are the ones the verification script expects
size_labels == [compact |-> 60, medium |-> 80, large |-> 100]

\* keys that can be handed to set_size: those of WIDGET_SIZES and another one
SizeKeys == DOMAIN WIDGET_SIZES \cup {"huge"}

\* FloatingWidget.__init__; asked is the key the widget was last given
WidgetInit(size_key) ==
    [size_key |-> size_key, asked |-> size_key,
     size |-> IF size_key \in DOMAIN WIDGET_SIZES THEN WIDGET_SIZES[size_key]
              ELSE WIDGET_SIZES["compact"]]

\* FloatingWidget.set_size
set_size(w, size_key) ==
    IF size_key \in DOMAIN WIDGET_SIZES
    THEN [w EXCEPT !.size_key = size_key, !.asked = size_key,
                   !.size = WIDGET_SIZES[size_key]]
    ELSE [w EXCEPT !.asked = size_key]

(***************************************************************************)
(* Events posted to the main thread                                        *)
(***************************************************************************)
\* outcome records, beside a worker's event, the recognizer call it came from
ToggleEvent ==
    [kind |-> "toggle", text |-> <<>>, msg |-> "", cycle |-> 0,
     outcome |-> NoOutcome]
CompleteEvent(text, c) ==
    [kind |-> "complete", text |-> text, msg |-> "", cycle |-> c,
     outcome |-> NoOutcome]
ErrorEvent(msg, c) ==
    [kind |-> "error", text |-> <<>>, msg |-> msg, cycle |-> c,
     outcome |-> NoOutcome]

\* _process_audio that emits the transcript without cleanup_text
process_audio_raw(o, c) ==
    IF o.kind = "raise" THEN ErrorEvent(o.error, c)
    ELSE LET result == RecognitionResult(o.text, o.error) IN
         IF result.success
         THEN CompleteEvent(result.text, c)
         ELSE ErrorEvent(IF result.error \in {None, ""}
                         THEN "Transcription failed" ELSE result.error, c)

\* VoiceInputApp._process_audio: the one event the worker of cycle c posts
process_audio(o, c) ==
    IF o.kind = "raise" THEN ErrorEvent(o.error, c)
    ELSE LET result == RecognitionResult(o.text, o.error) IN
         IF result.success
         THEN CompleteEvent(cleanup_text(result.text), c)
         ELSE ErrorEvent(IF result.error \in {None, ""}
                         THEN "Transcription failed" ELSE result.error, c)

(***************************************************************************)
(* The coordination context.  A handler is a function on the record of     *)
(* the fields the main thread owns; Apply installs its result.             *)
(***************************************************************************)
World ==
    [state |-> state, message |-> message, processing |-> processing,
     recorder |-> recorder, open_streams |-> open_streams,
     listener |-> listener, listeners |-> listeners,
     pressed_keys |-> pressed_keys,
     workers |-> workers, timers |-> timers, cycle |-> cycle,
     quitted |-> quitted, emitted |-> emitted, injected |-> injected,
     terminal |-> terminal, recognized |-> recognized,
     audio_path |-> audio_path, temp_files |-> temp_files,
     handled |-> handled, uncaught |-> uncaught]

\* no recording returned
NoPath == [is_none |-> TRUE, path |-> <<>>]

\* the world as a handler finds it when it starts
Fresh ==
    [World EXCEPT !.emitted = <<>>, !.injected = <<>>, !.recognized = NoOutcome,
                  !.uncaught = FALSE, !.audio_path = NoPath]

Apply(w) ==
    /\ state' = w.state
    /\ message' = w.message
    /\ processing' = w.processing
    /\ recorder' = w.recorder
    /\ open_streams' = w.open_streams
    /\ listener' = w.listener
    /\ listeners' = w.listeners
    /\ pressed_keys' = w.pressed_keys
    /\ workers' = w.workers
    /\ timers' = w.timers
    /\ cycle' = w.cycle
    /\ quitted' = w.quitted
    /\ emitted' = w.emitted
    /\ injected' = w.injected
    /\ terminal' = w.terminal
    /\ recognized' = w.recognized
    /\ audio_path' = w.audio_path
    /\ temp_files' = w.temp_files
    /\ handled' = w.handled
    /\ uncaught' = w.uncaught

\* state_changed.emit on the main thread: _on_state_changed runs at once and
\* logs the state it leaves beside the one it enters
state_changed(w, s, m) ==
    [w EXCEPT !.state = s, !.message = m,
              !.emitted = Append(@, [from |-> w.state, state |-> s,
                                     message |-> m])]

\* QTimer.singleShot(delay, lambda: self.state_changed.emit(STATE_IDLE, "Ready"))
singleShot(w, delay) ==
    [w EXCEPT !.timers = Append(@, [delay |-> delay, cycle |-> w.cycle])]

\* _on_error that schedules no return to Idle
on_error_no_timer(w, msg) ==
    LET w1 == [w EXCEPT !.processing = FALSE]
    IN  state_changed(w1, STATE_ERROR, msg)

\* VoiceInputApp._on_error
on_error(w, msg) ==
    LET w1 == [w EXCEPT !.processing = FALSE]
        w2 == state_changed(w1, STATE_ERROR, msg)
    IN  singleShot(w2, ErrorDelay)

\* VoiceInputApp._on_transcription_complete
on_transcription_complete(w, text) ==
    LET w1 == [w EXCEPT !.processing = FALSE] IN
    IF text # <<>>
    THEN LET w2 == [w1 EXCEPT !.injected = Append(@, text)]
             w3 == state_changed(w2, STATE_IDLE, "Done!")
         IN  singleShot(w3, DoneDelay)
    ELSE LET w2 == state_changed(w1, STATE_IDLE, "No speech detected")
         IN  singleShot(w2, NoSpeechDelay)

\* VoiceInputApp._start_recording
start_recording(w, env) ==
    IF w.recorder.recording THEN w
    ELSE LET w1 == state_changed(w, STATE_RECORDING, "Recording...")
             res == RecorderStart(w1.recorder, w1.open_streams, env)
         IN  [w1 EXCEPT !.recorder = res.rec, !.open_streams = res.open,
                        !.uncaught = res.raised]

\* _stop_recording that hands every recording it gets to a worker
stop_recording_no_validation(w, env) ==
    IF ~w.recorder.recording THEN w
    ELSE LET c == w.cycle + 1
             w1 == state_changed([w EXCEPT !.cycle = c, !.terminal = 0],
                                 STATE_PROCESSING, "Processing...")
             w2 == [w1 EXCEPT !.processing = TRUE]
             res == RecorderStop(w2.recorder, w2.open_streams, env)
             w3 == [w2 EXCEPT !.recorder = res.rec, !.open_streams = res.open,
                              !.audio_path = [is_none |-> res.is_none,
                                              path |-> res.path],
                              !.temp_files = IF res.is_none THEN @ ELSE @ + 1]
         IN  IF res.raised THEN [w3 EXCEPT !.uncaught = TRUE]
             ELSE IF res.is_none
             THEN LET w4 == [w3 EXCEPT !.terminal = @ + 1, !.handled = c]
                  IN  on_error(w4, "No audio recorded")
             ELSE [w3 EXCEPT !.workers = @ \cup {c}]

\* _stop_recording that forgets to set the processing guard
stop_recording_no_guard(w, env) ==
    IF ~w.recorder.recording THEN w
    ELSE LET c == w.cycle + 1
             w1 == state_changed([w EXCEPT !.cycle = c, !.terminal = 0],
                                 STATE_PROCESSING, "Processing...")
             res == RecorderStop(w1.recorder, w1.open_streams, env)
             w3 == [w1 EXCEPT !.recorder = res.rec, !.open_streams = res.open,
                              !.audio_path = [is_none |-> res.is_none,
                                              path |-> res.path],
                              !.temp_files = IF res.is_none THEN @ ELSE @ + 1]
         IN  IF res.raised THEN [w3 EXCEPT !.uncaught = TRUE]
             ELSE IF res.is_none \/ ~validate_audio(res.path)
             THEN LET w4 == [w3 EXCEPT !.terminal = @ + 1, !.handled = c]
                  IN  on_error(w4, "No audio recorded")
             ELSE [w3 EXCEPT !.workers = @ \cup {c}]

\* VoiceInputApp._stop_recording; an accepted stop opens the next cycle
stop_recording(w, env) ==
    IF ~w.recorder.recording THEN w
    ELSE LET c == w.cycle + 1
             w1 == state_changed([w EXCEPT !.cycle = c, !.terminal = 0],
                                 STATE_PROCESSING, "Processing...")
             w2 == [w1 EXCEPT !.processing = TRUE]
             res == RecorderStop(w2.recorder, w2.open_streams, env)
             w3 == [w2 EXCEPT !.recorder = res.rec, !.open_streams = res.open,
                              !.audio_path = [is_none |-> res.is_none,
                                              path |-> res.path],
                              !.temp_files = IF res.is_none THEN @ ELSE @ + 1]
         IN  IF res.raised THEN [w3 EXCEPT !.uncaught = TRUE]
             ELSE IF res.is_none \/ ~validate_audio(res.path)
             THEN LET w4 == [w3 EXCEPT !.terminal = @ + 1, !.handled = c]
                  IN  on_error(w4, "No audio recorded")
             ELSE [w3 EXCEPT !.workers = @ \cup {c}]

\* toggle_recording without the check of the processing guard
toggle_recording_unguarded(w, env) ==
    IF w.state = STATE_RECORDING THEN stop_recording(w, env)
    ELSE start_recording(w, env)

\* VoiceInputApp.toggle_recording
toggle_recording(w, env) ==
    IF w.processing THEN w
    ELSE IF w.state = STATE_RECORDING THEN stop_recording(w, env)
    ELSE start_recording(w, env)

\* VoiceInputApp.quit: HotkeyManager.stop, AudioRecorder.cancel, app.quit()
quit(w) ==
    LET h == HotkeyStop(w.listener, w.listeners, w.pressed_keys)
        w1 == [w EXCEPT !.listener = h.listener, !.listeners = h.listeners,
                        !.pressed_keys = h.pressed_keys]
        res == RecorderCancel(w1.recorder, w1.open_streams)
        w2 == [w1 EXCEPT !.recorder = res.rec, !.open_streams = res.open]
    IN  [w2 EXCEPT !.quitted = TRUE]

(***************************************************************************)
(* Threads followed step by step                                           *)
(***************************************************************************)
\* no chunk is in the hands of the audio callback
NoChunk == [len |-> 0, amp |-> 0]

\* No thread is inside a method of the recorder.  pc: where the main thread
\* is; lock: who holds AudioRecorder._lock; cb, chunk: where the callback
\* thread is and the chunk it was called with; taken: the chunks stop() has
\* concatenated.  Kept beside the program's state, to tell the chunks apart:
\* session counts the starts that began a recording; late says that the
\* recording flag was false when the chunk in hand was delivered; tags,
\* taken_tags and written give, for the chunks in the buffer, in stop()'s
\* hands and in the last finished recording, the session they were buffered
\* in and whether they were delivered late; consumed and cancelled are the
\* sessions a stop() has returned a recording of and those cancel() ended
StepsInit ==
    [pc |-> "idle", lock |-> "free", cb |-> "idle", chunk |-> NoChunk,
     taken |-> <<>>, session |-> 0, late |-> FALSE, tags |-> <<>>,
     taken_tags |-> <<>>, written |-> <<>>, consumed |-> {},
     cancelled |-> {}]

\* HotkeyManager._lock is free and no callback thread is running
CallbacksInit == [running |-> 0, lock |-> "free"]

\* the threads that call LocalWhisperRecognizer.transcribe at the same time
Callers == {1, 2}

\* no thread is inside transcribe; pc is where a caller is, name the model
\* name its load was started with, result what its call returned, calls the
\* number of calls it has made
CallersInit ==
    [i \in Callers |->
       [pc |-> "idle", name |-> None, calls |-> 0,
        result |-> RecognitionResult(<<>>, None)]]

(***************************************************************************)
(* Actions                                                                 *)
(***************************************************************************)
\* what the audio subsystem or the file system does during a handler
Env == {"ok", "open_fail", "start_fail", "write_fail"}

Init ==
    /\ state = STATE_IDLE
    /\ message = ""
    /\ processing = FALSE
    /\ recorder = RecorderInit
    /\ open_streams = 0
    /\ listener = TRUE
    /\ listeners = 1
    /\ pressed_keys = {}
    /\ held = {}
    /\ hotkey = DEFAULT_HOTKEY
    /\ eventq = <<>>
    /\ workers = {}
    /\ timers = <<>>
    /\ cycle = 0
    /\ quitted = FALSE
    /\ emitted = <<>>
    /\ injected = <<>>
    /\ terminal = 0
    /\ recognized = NoOutcome
    /\ audio_path = NoPath
    /\ found = RecorderInit
    /\ settings_model = DEFAULT_MODEL
    /\ settings_engine = DEFAULT_ENGINE
    /\ settings_api_key = ""
    /\ local_recognizer = LocalRecognizerInit(settings_model)
    /\ api_recognizer = ApiRecognizerInit(settings_api_key)
    /\ temp_files = 0
    /\ widget = WidgetInit(DEFAULT_WIDGET_SIZE)
    /\ steps = StepsInit
    /\ callbacks = CallbacksInit
    /\ callers = CallersInit
    /\ transcribing = NotTranscribing
    /\ handled = 0
    /\ uncaught = FALSE
    /\ last = "init"

\* the bounds of the model, as guards on the result of a handler
WithinBounds(w) ==
    /\ w.open_streams <= MaxStreams
    /\ (w.cycle > cycle => handled < MaxCycles)

\* the widget is clicked or the tray's toggle entry is chosen
UIToggle ==
    /\ ~quitted
    /\ \E env \in Env :
         LET w == toggle_recording(Fresh, env) IN
         WithinBounds(w) /\ Apply(w)
    /\ last' = "ui_toggle"
    /\ UNCHANGED <<eventq, hotkey, held, found, widget, StepVars>>
    /\ UNCHANGED RecognizerVars

\* the event loop delivers the toggle that _on_hotkey_pressed scheduled
HandleToggle ==
    /\ ~quitted
    /\ eventq # <<>> /\ Head(eventq).kind = "toggle"
    /\ \E env \in Env :
         LET w == toggle_recording(Fresh, env) IN
         WithinBounds(w) /\ Apply(w)
    /\ eventq' = Tail(eventq)
    /\ last' = "toggle"
    /\ UNCHANGED <<hotkey, held, found, widget, StepVars>>
    /\ UNCHANGED RecognizerVars

\* the delivery of transcription_complete by an event loop that runs on
\* after app.quit()
HandleComplete_after_quit ==
    /\ eventq # <<>> /\ Head(eventq).kind = "complete"
    /\ LET ev == Head(eventq)
           w == on_transcription_complete(Fresh, ev.text)
       IN  Apply([w EXCEPT !.handled = ev.cycle, !.recognized = ev.outcome])
    /\ eventq' = Tail(eventq)
    /\ last' = "complete"
    /\ UNCHANGED <<hotkey, held, found, widget, StepVars>>
    /\ UNCHANGED RecognizerVars

\* the event loop delivers a queued transcription_complete signal
HandleComplete ==
    /\ ~quitted
    /\ eventq # <<>> /\ Head(eventq).kind = "complete"
    /\ LET ev == Head(eventq)
           w == on_transcription_complete(Fresh, ev.text)
       IN  Apply([w EXCEPT !.handled = ev.cycle, !.recognized = ev.outcome])
    /\ eventq' = Tail(eventq)
    /\ last' = "complete"
    /\ UNCHANGED <<hotkey, held, found, widget, StepVars>>
    /\ UNCHANGED RecognizerVars

\* the event loop delivers a queued error_occurred signal
HandleError ==
    /\ ~quitted
    /\ eventq # <<>> /\ Head(eventq).kind = "error"
    /\ LET ev == Head(eventq)
           w == on_error(Fresh, ev.msg)
       IN  Apply([w EXCEPT !.handled = ev.cycle, !.recognized = ev.outcome])
    /\ eventq' = Tail(eventq)
    /\ last' = "error"
    /\ UNCHANGED <<hotkey, held, found, widget, StepVars>>
    /\ UNCHANGED RecognizerVars

\* timers[i] may expire now: nothing scheduled before it is due before it
MayExpire(i) ==
    \A j \in 1..(i - 1) : timers[j].delay > timers[i].delay

RemoveAt(seq, i) == SubSeq(seq, 1, i - 1) \o SubSeq(seq, i + 1, Len(seq))

\* an auto-revert timer expires: state_changed.emit(STATE_IDLE, "Ready")
TimerFire ==
    /\ ~quitted
    /\ \E i \in 1..Len(timers) :
         /\ MayExpire(i)
         /\ Apply(state_changed([Fresh EXCEPT !.timers = RemoveAt(@, i)],
                                STATE_IDLE, "Ready"))
    /\ last' = "timer"
    /\ UNCHANGED <<eventq, hotkey, held, found, widget, StepVars>>
    /\ UNCHANGED RecognizerVars

\* the tray's quit entry is chosen
Quit ==
    /\ ~quitted
    /\ Apply(quit(Fresh))
    /\ last' = "quit"
    /\ UNCHANGED <<eventq, hotkey, held, found, widget, StepVars>>
    /\ UNCHANGED RecognizerVars

\* HotkeyManager._on_press on the listener thread; the callback thread it
\* starts runs _on_hotkey_pressed, which posts toggle_recording to the main
\* thread with QTimer.singleShot(0, ...)
OnPress ==
    /\ listeners > 0
    /\ \E k \in Keys :
         /\ held' = held \cup {k}
         /\ pressed_keys' = pressed_keys \cup {k}
         /\ IF check_hotkey(hotkey, pressed_keys')
            THEN /\ Len(eventq) < MaxQueue
                 /\ eventq' = Append(eventq, ToggleEvent)
            ELSE eventq' = eventq
    /\ last' = "press"
    /\ UNCHANGED <<state, message, processing, recorder, open_streams, listener,
                   listeners, hotkey, workers, timers, cycle, quitted, emitted,
                   injected, terminal, recognized, audio_path, found, widget, StepVars, handled, uncaught,
                   temp_files>>
    /\ UNCHANGED RecognizerVars

\* HotkeyManager._on_release on the listener thread
OnRelease ==
    /\ listeners > 0
    /\ \E k \in held :
         /\ held' = held \ {k}
         /\ pressed_keys' = pressed_keys \ {k}
    /\ last' = "release"
    /\ UNCHANGED <<state, message, processing, recorder, open_streams, listener,
                   listeners, hotkey, eventq, workers, timers, cycle, quitted, emitted,
                   injected, terminal, recognized, audio_path, found, widget, StepVars, handled, uncaught,
                   temp_files>>
    /\ UNCHANGED RecognizerVars

\* the audio subsystem delivers a chunk on its callback thread
AudioCallback ==
    /\ recorder.stream = "active"
    /\ Len(recorder.audio_data) < MaxChunks
    /\ \E chunk \in ChunkKinds : recorder' = AudioCallbackBody(recorder, chunk)
    /\ last' = "audio"
    /\ UNCHANGED <<state, message, processing, open_streams, listener,
                   listeners, pressed_keys, held, hotkey, eventq, workers,
                   timers, cycle, quitted,
                   emitted, injected, terminal, recognized, audio_path, found, widget, StepVars, handled,
                   uncaught, temp_files>>
    /\ UNCHANGED RecognizerVars

\* a worker that clears the processing guard itself when it is done
WorkerRun_clears_guard ==
    /\ \E c \in workers, o \in TranscribeOutcomes :
         LET ev == process_audio(o, c) IN
         /\ workers' = workers \ {c}
         /\ temp_files' \in IF o.kind = "raise"
                            THEN {temp_files, temp_files - 1}
                            ELSE {temp_files - 1}
         /\ eventq' = Append(eventq, [ev EXCEPT !.outcome = o])
    /\ processing' = FALSE
    /\ terminal' = terminal + 1
    /\ last' = "worker"
    /\ UNCHANGED <<state, message, recorder, open_streams, listener, listeners,
                   pressed_keys, held, hotkey, timers, cycle, quitted, emitted,
                   injected, recognized, audio_path, found, widget, StepVars, handled, uncaught>>
    /\ UNCHANGED RecognizerVars

\* a worker thread runs _process_audio to its end and posts its event; the
\* recording is deleted after the recognizer's call, which an exception
\* ("raise") has either passed or not reached
WorkerRun ==
    /\ \E c \in workers, o \in TranscribeOutcomes :
         LET ev == process_audio(o, c) IN
         /\ workers' = workers \ {c}
         /\ temp_files' \in IF o.kind = "raise"
                            THEN {temp_files, temp_files - 1}
                            ELSE {temp_files - 1}
         /\ eventq' = Append(eventq, [ev EXCEPT !.outcome = o])
    /\ terminal' = terminal + 1
    /\ last' = "worker"
    /\ UNCHANGED <<state, message, processing, recorder, open_streams, listener, listeners,
                   pressed_keys, held, hotkey, timers, cycle, quitted, emitted,
                   injected, recognized, audio_path, found, widget, StepVars, handled, uncaught>>
    /\ UNCHANGED RecognizerVars

(***************************************************************************)
(* The AudioRecorder on its own: its methods called in any order, with the *)
(* audio callback running beside them.                                     *)
(***************************************************************************)
AppVars == <<state, message, processing, listener, listeners, pressed_keys,
             held, hotkey, RecognizerVars, temp_files, widget, StepVars,
             eventq, workers, timers, cycle, quitted, emitted, injected,
             terminal, recognized, handled>>

RecStart ==
    /\ \E env \in Env :
         LET res == RecorderStart(recorder, open_streams, env) IN
         /\ res.open <= MaxStreams
         /\ recorder' = res.rec
         /\ open_streams' = res.open
         /\ uncaught' = res.raised
    /\ audio_path' = NoPath
    /\ found' = recorder
    /\ last' = "start"
    /\ UNCHANGED AppVars

RecStop ==
    /\ \E env \in Env :
         LET res == RecorderStop(recorder, open_streams, env) IN
         /\ recorder' = res.rec
         /\ open_streams' = res.open
         /\ uncaught' = res.raised
         /\ audio_path' = [is_none |-> res.is_none, path |-> res.path]
    /\ found' = recorder
    /\ last' = "stop"
    /\ UNCHANGED AppVars

RecCancel ==
    /\ LET res == RecorderCancel(recorder, open_streams) IN
         /\ recorder' = res.rec
         /\ open_streams' = res.open
    /\ uncaught' = FALSE
    /\ audio_path' = NoPath
    /\ found' = recorder
    /\ last' = "cancel"
    /\ UNCHANGED AppVars

RecAudio ==
    /\ recorder.stream = "active"
    /\ Len(recorder.audio_data) < MaxChunks
    /\ \E chunk \in ChunkKinds : recorder' = AudioCallbackBody(recorder, chunk)
    /\ last' = "audio"
    /\ UNCHANGED <<open_streams, uncaught, audio_path, found>>
    /\ UNCHANGED AppVars

RecSetDevice ==
    /\ \E d \in DeviceNames : recorder' = RecorderSetDevice(recorder, d)
    /\ uncaught' = FALSE
    /\ found' = recorder
    /\ last' = "set_device"
    /\ UNCHANGED <<open_streams, audio_path>>
    /\ UNCHANGED AppVars

NextRecorder == RecStart \/ RecStop \/ RecCancel \/ RecAudio \/ RecSetDevice

SpecRecorder == Init /\ [][NextRecorder]_vars

(***************************************************************************)
(* The AudioRecorder step by step: the main thread goes through start(),   *)
(* stop(), cancel() and is_recording() one lock region and one call of the *)
(* audio subsystem at a time, while the subsystem's thread runs            *)
(* _audio_callback.  A "with self._lock" region is entered when the lock   *)
(* is free; stream.stop() returns when no callback is in progress.         *)
(***************************************************************************)
RsRest == <<state, message, processing, listener, listeners, pressed_keys,
            held, hotkey, RecognizerVars, temp_files, widget, callbacks,
            callers, eventq, workers, timers, cycle, quitted, emitted,
            injected, terminal, recognized, handled>>

\* the recorder's methods the main thread calls
RecorderMethods == {"start", "stop", "cancel", "is_recording"}

\* the main thread calls a method of the recorder
RsCall ==
    /\ steps.pc = "idle"
    /\ \E m \in RecorderMethods :
         /\ m = "start" => steps.session <= MaxCycles
         /\ steps' = [steps EXCEPT !.pc = m]
    /\ uncaught' = FALSE
    /\ audio_path' = NoPath
    /\ found' = recorder
    /\ last' = "call"
    /\ UNCHANGED <<recorder, open_streams>>
    /\ UNCHANGED RsRest

\* start(), the region under the lock: the guard, the fresh buffer, the flag
RsStartFlag ==
    /\ steps.pc = "start"
    /\ steps.lock = "free"
    /\ IF recorder.recording
       THEN /\ steps' = [steps EXCEPT !.pc = "idle"]
            /\ UNCHANGED recorder
       ELSE /\ recorder' = [recorder EXCEPT !.audio_data = <<>>,
                                            !.recording = TRUE]
            /\ steps' = [steps EXCEPT !.pc = "start_open",
                                      !.session = @ + 1, !.tags = <<>>]
    /\ last' = "start_flag"
    /\ UNCHANGED <<open_streams, uncaught, audio_path, found>>
    /\ UNCHANGED RsRest

\* start(), the rest: the device lookup, sd.InputStream(...), stream.start()
RsStartOpen ==
    /\ steps.pc = "start_open"
    /\ \E env \in {"ok", "open_fail", "start_fail"} :
         LET r2 == [recorder EXCEPT !.stream_device = DeviceId(recorder.device)]
         IN  CASE env = "open_fail" ->
                    /\ UNCHANGED <<recorder, open_streams>>
                    /\ uncaught' = TRUE
               [] env = "start_fail" ->
                    /\ open_streams < MaxStreams
                    /\ recorder' = [r2 EXCEPT !.stream = "open"]
                    /\ open_streams' = open_streams + 1
                    /\ uncaught' = TRUE
               [] OTHER ->
                    /\ open_streams < MaxStreams
                    /\ recorder' = [r2 EXCEPT !.stream = "active"]
                    /\ open_streams' = open_streams + 1
                    /\ uncaught' = FALSE
    /\ steps' = [steps EXCEPT !.pc = "idle"]
    /\ last' = "start_open"
    /\ UNCHANGED <<audio_path, found>>
    /\ UNCHANGED RsRest

\* stop() that keeps the lock when it has cleared the flag
RsStopFlag_holds_lock ==
    /\ steps.pc = "stop"
    /\ steps.lock = "free"
    /\ IF ~recorder.recording
       THEN /\ steps' = [steps EXCEPT !.pc = "idle"]
            /\ UNCHANGED recorder
       ELSE /\ recorder' = [recorder EXCEPT !.recording = FALSE]
            /\ steps' = [steps EXCEPT !.pc = "stop_halt", !.lock = "main"]
    /\ last' = "stop_flag"
    /\ UNCHANGED <<open_streams, uncaught, audio_path, found>>
    /\ UNCHANGED RsRest

\* stop(), the first region under the lock: the guard and the flag
RsStopFlag ==
    /\ steps.pc = "stop"
    /\ steps.lock = "free"
    /\ IF ~recorder.recording
       THEN /\ steps' = [steps EXCEPT !.pc = "idle"]
            /\ UNCHANGED recorder
       ELSE /\ recorder' = [recorder EXCEPT !.recording = FALSE]
            /\ steps' = [steps EXCEPT !.pc = "stop_halt"]
    /\ last' = "stop_flag"
    /\ UNCHANGED <<open_streams, uncaught, audio_path, found>>
    /\ UNCHANGED RsRest

\* stop(): stream.stop(), stream.close(), self._stream = None, outside the
\* lock; a started stream halts when no callback is in progress
RsStopHalt ==
    /\ steps.pc = "stop_halt"
    /\ recorder.stream = "active" => steps.cb = "idle"
    /\ LET c == CloseStream(recorder, open_streams) IN
         /\ recorder' = c.rec
         /\ open_streams' = c.open
    /\ steps' = [steps EXCEPT !.pc = "stop_take"]
    /\ last' = "stop_halt"
    /\ UNCHANGED <<uncaught, audio_path, found>>
    /\ UNCHANGED RsRest

\* stop(), the second region under the lock: the chunks are concatenated
\* and the buffer is emptied, or None is returned when there are none
RsStopTake ==
    /\ steps.pc = "stop_take"
    /\ steps.lock = "free"
    /\ IF recorder.audio_data = <<>>
       THEN /\ steps' = [steps EXCEPT !.pc = "idle"]
            /\ UNCHANGED recorder
       ELSE /\ steps' = [steps EXCEPT !.pc = "stop_write",
                                      !.taken = recorder.audio_data,
                                      !.taken_tags = steps.tags,
                                      !.tags = <<>>]
            /\ recorder' = [recorder EXCEPT !.audio_data = <<>>]
    /\ last' = "stop_take"
    /\ UNCHANGED <<open_streams, uncaught, audio_path, found>>
    /\ UNCHANGED RsRest

\* stop(), the rest: the temporary file is written and its path returned
RsStopWrite ==
    /\ steps.pc = "stop_write"
    /\ \E env \in {"ok", "write_fail"} :
         IF env = "write_fail"
         THEN /\ uncaught' = TRUE
              /\ audio_path' = NoPath
              /\ steps' = [steps EXCEPT !.pc = "idle", !.taken = <<>>,
                                        !.taken_tags = <<>>]
         ELSE /\ uncaught' = FALSE
              /\ audio_path' = [is_none |-> FALSE,
                                path |-> FinishedRecording(steps.taken)]
              /\ steps' = [steps EXCEPT
                             !.pc = "idle", !.taken = <<>>,
                             !.taken_tags = <<>>,
                             !.written = steps.taken_tags,
                             !.consumed = @ \cup {steps.taken_tags[i].session :
                                                    i \in DOMAIN steps.taken_tags}]
    /\ last' = "stop_write"
    /\ UNCHANGED <<recorder, open_streams, found>>
    /\ UNCHANGED RsRest

\* cancel() that only closes the stream
RsCancelFlag_keeps_all ==
    /\ steps.pc = "cancel"
    /\ steps.lock = "free"
    /\ steps' = [steps EXCEPT !.pc = "cancel_halt",
                              !.cancelled = IF recorder.recording
                                            THEN @ \cup {steps.session} ELSE @]
    /\ last' = "cancel_flag"
    /\ UNCHANGED <<recorder, open_streams, uncaught, audio_path, found>>
    /\ UNCHANGED RsRest

\* cancel(), the region under the lock: the flag and the buffer
RsCancelFlag ==
    /\ steps.pc = "cancel"
    /\ steps.lock = "free"
    /\ recorder' = [recorder EXCEPT !.recording = FALSE, !.audio_data = <<>>]
    /\ steps' = [steps EXCEPT !.pc = "cancel_halt", !.tags = <<>>,
                              !.cancelled = IF recorder.recording
                                            THEN @ \cup {steps.session} ELSE @]
    /\ last' = "cancel_flag"
    /\ UNCHANGED <<open_streams, uncaught, audio_path, found>>
    /\ UNCHANGED RsRest

\* cancel(), the rest: the stream is stopped and closed
RsCancelHalt ==
    /\ steps.pc = "cancel_halt"
    /\ recorder.stream = "active" => steps.cb = "idle"
    /\ LET c == CloseStream(recorder, open_streams) IN
         /\ recorder' = c.rec
         /\ open_streams' = c.open
    /\ steps' = [steps EXCEPT !.pc = "idle"]
    /\ last' = "cancel_halt"
    /\ UNCHANGED <<uncaught, audio_path, found>>
    /\ UNCHANGED RsRest

\* is_recording(): the flag is read under the lock
RsIsRecording ==
    /\ steps.pc = "is_recording"
    /\ steps.lock = "free"
    /\ steps' = [steps EXCEPT !.pc = "idle"]
    /\ last' = "is_recording"
    /\ UNCHANGED <<recorder, open_streams, uncaught, audio_path, found>>
    /\ UNCHANGED RsRest

\* the started stream calls _audio_callback with a chunk
RsDeliver ==
    /\ recorder.stream = "active"
    /\ steps.cb = "idle"
    /\ Len(recorder.audio_data) < MaxChunks
    /\ \E chunk \in ChunkKinds :
         steps' = [steps EXCEPT !.cb = "waiting", !.chunk = chunk,
                                !.late = ~recorder.recording]
    /\ last' = "deliver_chunk"
    /\ UNCHANGED <<recorder, open_streams, uncaught, audio_path, found>>
    /\ UNCHANGED RsRest

\* _audio_callback enters its region under the lock
RsCbLock ==
    /\ steps.cb = "waiting"
    /\ steps.lock = "free"
    /\ steps' = [steps EXCEPT !.cb = "locked", !.lock = "callback"]
    /\ last' = "cb_lock"
    /\ UNCHANGED <<recorder, open_streams, uncaught, audio_path, found>>
    /\ UNCHANGED RsRest

\* _audio_callback that keeps every chunk it is called with
RsCbBody_keeps_all ==
    /\ steps.cb = "locked"
    /\ recorder' = [recorder EXCEPT !.audio_data = Append(@, steps.chunk)]
    /\ steps' = [steps EXCEPT
                   !.cb = "idle", !.lock = "free", !.chunk = NoChunk,
                   !.tags = Append(@, [session |-> steps.session,
                                       late |-> steps.late])]
    /\ last' = IF recorder.recording THEN "cb_kept" ELSE "cb_dropped"
    /\ UNCHANGED <<open_streams, uncaught, audio_path, found>>
    /\ UNCHANGED RsRest

\* _audio_callback, the region under the lock: the chunk is appended while
\* recording, the level observer is called (it emits a signal and returns),
\* and the lock is released
RsCbBody ==
    /\ steps.cb = "locked"
    /\ recorder' = AudioCallbackBody(recorder, steps.chunk)
    /\ steps' = [steps EXCEPT
                   !.cb = "idle", !.lock = "free", !.chunk = NoChunk,
                   !.tags = IF recorder.recording
                            THEN Append(@, [session |-> steps.session,
                                            late |-> steps.late])
                            ELSE @]
    /\ last' = IF recorder.recording THEN "cb_kept" ELSE "cb_dropped"
    /\ UNCHANGED <<open_streams, uncaught, audio_path, found>>
    /\ UNCHANGED RsRest

NextRecorderSteps ==
    \/ RsCall
    \/ RsStartFlag
    \/ RsStartOpen
    \/ RsStopFlag
    \/ RsStopHalt
    \/ RsStopTake
    \/ RsStopWrite
    \/ RsCancelFlag
    \/ RsCancelHalt
    \/ RsIsRecording
    \/ RsDeliver
    \/ RsCbLock
    \/ RsCbBody

SpecRecorderSteps == Init /\ [][NextRecorderSteps]_vars

(***************************************************************************)
(* The HotkeyManager on its own: its methods called in any order while     *)
(* keys go down and up; the toggles it posts are taken off the queue.      *)
(***************************************************************************)
\* keys of the keyboard, as _normalize_key names them
HotkeyKeys == {"ctrl_l", "ctrl_r", "shift", "alt_l", "a"}

\* the chords that can be configured, and the empty dict
HotkeyConfigs ==
    [ctrl : BOOLEAN, shift : BOOLEAN, alt : BOOLEAN, key : {"A", ""}]
    \cup {EmptyHotkey}

HkRest == <<state, message, processing, recorder, open_streams, workers, timers,
            cycle, quitted, emitted, injected, terminal, recognized,
            audio_path, found, RecognizerVars, temp_files, widget, StepVars,
            handled, uncaught>>

\* a key goes down; a running listener calls _on_press
HkPress ==
    /\ \E k \in HotkeyKeys :
         /\ held' = held \cup {k}
         /\ IF listeners > 0
            THEN /\ pressed_keys' = pressed_keys \cup {k}
                 /\ IF check_hotkey(hotkey, pressed_keys')
                    THEN /\ Len(eventq) < MaxQueue
                         /\ eventq' = Append(eventq, ToggleEvent)
                    ELSE eventq' = eventq
                 /\ last' = "press"
            ELSE /\ UNCHANGED <<pressed_keys, eventq>>
                 /\ last' = "key_down"
    /\ UNCHANGED <<listener, listeners, hotkey>>
    /\ UNCHANGED HkRest

\* a key goes up; a running listener calls _on_release
HkRelease ==
    /\ \E k \in held :
         /\ held' = held \ {k}
         /\ IF listeners > 0
            THEN pressed_keys' = pressed_keys \ {k} /\ last' = "release"
            ELSE pressed_keys' = pressed_keys /\ last' = "key_up"
    /\ UNCHANGED <<listener, listeners, hotkey, eventq>>
    /\ UNCHANGED HkRest

HkStart ==
    /\ LET h == HotkeyStart(listener, listeners) IN
         /\ listener' = h.listener
         /\ listeners' = h.listeners
    /\ last' = "hk_start"
    /\ UNCHANGED <<pressed_keys, held, hotkey, eventq>>
    /\ UNCHANGED HkRest

HkStop ==
    /\ LET h == HotkeyStop(listener, listeners, pressed_keys) IN
         /\ listener' = h.listener
         /\ listeners' = h.listeners
         /\ pressed_keys' = h.pressed_keys
    /\ last' = "hk_stop"
    /\ UNCHANGED <<held, hotkey, eventq>>
    /\ UNCHANGED HkRest

\* HotkeyManager.set_hotkey
HkSetHotkey ==
    /\ \E h \in HotkeyConfigs : hotkey' = h
    /\ last' = "set_hotkey"
    /\ UNCHANGED <<listener, listeners, pressed_keys, held, eventq>>
    /\ UNCHANGED HkRest

\* the main thread takes a posted toggle off its queue
HkDeliver ==
    /\ eventq # <<>>
    /\ eventq' = Tail(eventq)
    /\ last' = "deliver"
    /\ UNCHANGED <<listener, listeners, pressed_keys, held, hotkey>>
    /\ UNCHANGED HkRest

NextHotkey ==
    HkPress \/ HkRelease \/ HkStart \/ HkStop \/ HkSetHotkey \/ HkDeliver

SpecHotkey == Init /\ [][NextHotkey]_vars

(***************************************************************************)
(* The listener thread and the callback threads it starts: _on_press and   *)
(* _on_release are one lock region each; a callback thread runs            *)
(* _on_hotkey_pressed at its own pace and posts the toggle when it does.   *)
(***************************************************************************)
HtRest == <<state, message, processing, recorder, open_streams, workers, timers,
            cycle, quitted, emitted, injected, terminal, recognized,
            audio_path, found, RecognizerVars, temp_files, widget, steps,
            callers, handled, uncaught>>

\* _on_press that calls the callback itself, inside its lock region
HtPress_calls_inline ==
    /\ listeners > 0
    /\ callbacks.lock = "free"
    /\ \E k \in Keys :
         /\ held' = held \cup {k}
         /\ pressed_keys' = pressed_keys \cup {k}
         /\ IF check_hotkey(hotkey, pressed_keys')
            THEN /\ callbacks.running <= MaxQueue
                 /\ callbacks' = [callbacks EXCEPT !.running = @ + 1,
                                                   !.lock = "listener"]
            ELSE callbacks' = callbacks
    /\ last' = "press"
    /\ UNCHANGED <<listener, listeners, hotkey, eventq>>
    /\ UNCHANGED HtRest

\* _on_press on the listener thread: under the lock the key is added and,
\* when the chord is held, a daemon thread is started for the callback
HtPress ==
    /\ listeners > 0
    /\ callbacks.lock = "free"
    /\ \E k \in Keys :
         /\ held' = held \cup {k}
         /\ pressed_keys' = pressed_keys \cup {k}
         /\ IF check_hotkey(hotkey, pressed_keys')
            THEN /\ callbacks.running <= MaxQueue
                 /\ callbacks' = [callbacks EXCEPT !.running = @ + 1]
            ELSE callbacks' = callbacks
    /\ last' = "press"
    /\ UNCHANGED <<listener, listeners, hotkey, eventq>>
    /\ UNCHANGED HtRest

\* _on_release on the listener thread: under the lock the key is discarded
HtRelease ==
    /\ listeners > 0
    /\ callbacks.lock = "free"
    /\ \E k \in held :
         /\ held' = held \ {k}
         /\ pressed_keys' = pressed_keys \ {k}
    /\ last' = "release"
    /\ UNCHANGED <<listener, listeners, hotkey, eventq, callbacks>>
    /\ UNCHANGED HtRest

\* a callback thread runs _on_hotkey_pressed to its end: toggle_recording
\* is posted to the main thread with QTimer.singleShot(0, ...)
HtCallback ==
    /\ callbacks.running > 0
    /\ Len(eventq) < MaxQueue
    /\ eventq' = Append(eventq, ToggleEvent)
    /\ callbacks' = [callbacks EXCEPT !.running = @ - 1]
    /\ last' = "callback"
    /\ UNCHANGED <<listener, listeners, pressed_keys, held, hotkey>>
    /\ UNCHANGED HtRest

NextHotkeyThreads ==
    \/ HtPress
    \/ HtRelease
    \/ HtCallback
    \/ HkStart
    \/ HkStop
    \/ HkDeliver

SpecHotkeyThreads == Init /\ [][NextHotkeyThreads]_vars

(***************************************************************************)
(* Recognition dispatch on its own: one worker thread at a time goes       *)
(* through _process_audio (the choice of the recognizer, set_model or      *)
(* set_api_key, transcribe, the removal of the recording, the signal),     *)
(* while the main thread applies changed settings and handles the          *)
(* worker's signal.  The threads share the recognizers without a lock.     *)
(***************************************************************************)
RecogRest == <<state, message, processing, open_streams, listener,
               listeners, pressed_keys, held, hotkey, workers, timers,
               cycle, quitted, emitted, injected, terminal, recognized,
               audio_path, found, handled, uncaught, widget, StepVars>>

\* VoiceInputApp._on_settings_changed, with the device, model and key it reads
\* from the settings; the engine is read by the worker alone
on_settings_changed(d, e, m, k) ==
    /\ ~quitted
    /\ settings_engine' = e
    /\ settings_model' = m
    /\ settings_api_key' = k
    /\ recorder' = RecorderSetDevice(recorder, d)
    /\ local_recognizer' = set_model(local_recognizer, m)
    /\ api_recognizer' = set_api_key(api_recognizer, k)
    /\ last' = "settings_changed"
    /\ UNCHANGED <<transcribing, eventq, temp_files>>
    /\ UNCHANGED RecogRest

\* the settings window is saved with other recognition settings and the
\* audio device as it was
SettingsChanged ==
    \E e \in Engines, m \in ModelNames, k \in ApiKeys :
        on_settings_changed(recorder.device, e, m, k)

\* _stop_recording starts a worker thread with the recording stop() returned;
\* the processing guard keeps it from doing so before the signal of the
\* worker before was handled
TrStart ==
    /\ ~quitted
    /\ transcribing.pc = "idle"
    /\ eventq = <<>>
    /\ Len(timers) < MaxQueue
    /\ temp_files' = temp_files + 1
    /\ transcribing' = [NotTranscribing EXCEPT !.pc = "select"]
    /\ last' = "tr_start"
    /\ UNCHANGED <<settings_model, settings_engine, settings_api_key,
                   local_recognizer, api_recognizer, recorder, eventq>>
    /\ UNCHANGED RecogRest

\* _process_audio, the local engine: recognizer.set_model(settings.model)
TrSetModel ==
    /\ transcribing.pc = "select"
    /\ settings_engine # ENGINE_API
    /\ local_recognizer' = set_model(local_recognizer, settings_model)
    /\ transcribing' = [transcribing EXCEPT !.pc = "load",
                                            !.engine = ENGINE_LOCAL]
    /\ last' = "set_model"
    /\ UNCHANGED <<settings_model, settings_engine, settings_api_key,
                   api_recognizer, recorder, eventq, temp_files>>
    /\ UNCHANGED RecogRest

\* _process_audio, the remote engine: recognizer.set_api_key(settings.openai_api_key)
TrSetApiKey ==
    /\ transcribing.pc = "select"
    /\ settings_engine = ENGINE_API
    /\ api_recognizer' = set_api_key(api_recognizer, settings_api_key)
    /\ transcribing' = [transcribing EXCEPT !.pc = "api",
                                            !.engine = ENGINE_API]
    /\ last' = "set_api_key"
    /\ UNCHANGED <<settings_model, settings_engine, settings_api_key,
                   local_recognizer, recorder, eventq, temp_files>>
    /\ UNCHANGED RecogRest

\* APIWhisperRecognizer.transcribe with the language hint of the settings
TrApiTranscribe ==
    /\ transcribing.pc = "api"
    /\ \E hint \in LanguageHints, init_ok \in BOOLEAN,
          provider \in ProviderBehaviours :
         LET res == api_transcribe(api_recognizer, hint, init_ok, provider) IN
         /\ api_recognizer' = res.rec
         /\ transcribing' =
              [transcribing EXCEPT
                 !.pc = "result", !.result = res.result,
                 !.called = res.called,
                 !.hint = IF res.called THEN hint ELSE <<>>,
                 !.lang = res.lang,
                 !.raw = IF res.called /\ provider.kind = "error"
                         THEN provider.msg ELSE None]
    /\ last' = "api_transcribe"
    /\ UNCHANGED <<settings_model, settings_engine, settings_api_key,
                   local_recognizer, recorder, eventq, temp_files>>
    /\ UNCHANGED RecogRest

\* _load_model up to the call of WhisperModel(self._model_name, ...)
TrLoadBegin ==
    /\ transcribing.pc = "load"
    /\ IF local_recognizer.model # None
       THEN /\ transcribing' = [transcribing EXCEPT !.pc = "engine"]
            /\ UNCHANGED local_recognizer
       ELSE IF local_recognizer.loading
       THEN /\ transcribing' =
                 [transcribing EXCEPT
                    !.pc = "result",
                    !.result = RecognitionResult(<<>>, ModelLoadFailed)]
            /\ UNCHANGED local_recognizer
       ELSE /\ local_recognizer' = [local_recognizer EXCEPT !.loading = TRUE]
            /\ transcribing' =
                 [transcribing EXCEPT !.pc = "constructing",
                                      !.name = local_recognizer.model_name]
    /\ last' = "load_begin"
    /\ UNCHANGED <<settings_model, settings_engine, settings_api_key,
                   api_recognizer, recorder, eventq, temp_files>>
    /\ UNCHANGED RecogRest

\* the failure of WhisperModel(...) that leaves the loading flag set
TrLoadEnd_keeps_loading ==
    /\ transcribing.pc = "constructing"
    /\ \E ok \in BOOLEAN :
         IF ok
         THEN /\ local_recognizer' =
                   [local_recognizer EXCEPT !.model = transcribing.name,
                                            !.loading = FALSE]
              /\ transcribing' = [transcribing EXCEPT !.pc = "engine",
                                                      !.name = None]
         ELSE /\ UNCHANGED local_recognizer
              /\ transcribing' =
                   [transcribing EXCEPT
                      !.pc = "result", !.name = None,
                      !.result = RecognitionResult(<<>>, ModelLoadFailed)]
    /\ last' = IF local_recognizer'.model # None THEN "load_end"
               ELSE "load_failed"
    /\ UNCHANGED <<settings_model, settings_engine, settings_api_key,
                   api_recognizer, recorder, eventq, temp_files>>
    /\ UNCHANGED RecogRest

\* WhisperModel(...) returns and the handle is stored, or it raises and
\* transcribe returns the failure; the finally clause clears the flag
TrLoadEnd ==
    /\ transcribing.pc = "constructing"
    /\ \E ok \in BOOLEAN :
         IF ok
         THEN /\ local_recognizer' =
                   [local_recognizer EXCEPT !.model = transcribing.name,
                                            !.loading = FALSE]
              /\ transcribing' = [transcribing EXCEPT !.pc = "engine",
                                                      !.name = None]
         ELSE /\ local_recognizer' = [local_recognizer EXCEPT !.loading = FALSE]
              /\ transcribing' =
                   [transcribing EXCEPT
                      !.pc = "result", !.name = None,
                      !.result = RecognitionResult(<<>>, ModelLoadFailed)]
    /\ last' = IF local_recognizer'.model # None THEN "load_end"
               ELSE "load_failed"
    /\ UNCHANGED <<settings_model, settings_engine, settings_api_key,
                   api_recognizer, recorder, eventq, temp_files>>
    /\ UNCHANGED RecogRest

\* self._model.transcribe(..., language=lang, ...) and the result made of
\* it; a handle that set_model dropped in the meantime makes the call raise
TrEngine ==
    /\ transcribing.pc = "engine"
    /\ \E hint \in LanguageHints, b \in LocalEngineBehaviours :
         transcribing' =
           IF local_recognizer.model = None
           THEN [transcribing EXCEPT
                   !.pc = "result",
                   !.result = RecognitionResult(<<>>, NoModelError)]
           ELSE [transcribing EXCEPT
                   !.pc = "result", !.called = TRUE, !.hint = hint,
                   !.lang = local_language(hint),
                   !.result = local_result(b)]
    /\ last' = "engine"
    /\ UNCHANGED <<settings_model, settings_engine, settings_api_key,
                   local_recognizer, api_recognizer, recorder, eventq,
                   temp_files>>
    /\ UNCHANGED RecogRest

\* the rest of _process_audio: os.unlink(audio_path) and the signal
TrFinish ==
    /\ transcribing.pc = "result"
    /\ LET o == [kind |-> "result", text |-> transcribing.result.text,
                 error |-> transcribing.result.error]
           ev == process_audio(o, cycle)
       IN  eventq' = Append(eventq, [ev EXCEPT !.outcome = o])
    /\ temp_files' = temp_files - 1
    /\ transcribing' = NotTranscribing
    /\ last' = "tr_finish"
    /\ UNCHANGED <<settings_model, settings_engine, settings_api_key,
                   local_recognizer, api_recognizer, recorder>>
    /\ UNCHANGED RecogRest

NextRecognizer ==
    \/ SettingsChanged
    \/ TrStart
    \/ TrSetModel
    \/ TrSetApiKey
    \/ TrApiTranscribe
    \/ TrLoadBegin
    \/ TrLoadEnd
    \/ TrEngine
    \/ TrFinish
    \/ HandleComplete
    \/ HandleError
    \/ TimerFire

SpecRecognizer == Init /\ [][NextRecognizer]_vars

(***************************************************************************)
(* LocalWhisperRecognizer.transcribe called by two threads at once, each   *)
(* followed one statement of _load_model at a time: the recognizer has no  *)
(* lock, so the tests of _model and _loading and the assignment of         *)
(* _loading interleave freely.                                             *)
(***************************************************************************)
CcRest == <<state, message, processing, recorder, open_streams, listener,
            listeners, pressed_keys, held, hotkey, eventq, workers, timers,
            cycle, quitted, emitted, injected, terminal, recognized,
            audio_path, found, handled, uncaught, widget, steps, callbacks,
            settings_model, settings_engine, settings_api_key,
            api_recognizer, transcribing, temp_files>>

\* a thread calls transcribe
CcCall ==
    /\ \E i \in Callers :
         /\ callers[i].pc = "idle"
         /\ callers[i].calls <= MaxCycles
         /\ callers' = [callers EXCEPT ![i].pc = "check_model",
                                       ![i].calls = @ + 1,
                                       ![i].result = RecognitionResult(<<>>, None)]
    /\ last' = "cc_call"
    /\ UNCHANGED local_recognizer
    /\ UNCHANGED CcRest

\* _load_model: if self._model is not None: return True
CcCheckModel ==
    /\ \E i \in Callers :
         /\ callers[i].pc = "check_model"
         /\ callers' = [callers EXCEPT
                          ![i].pc = IF local_recognizer.model # None
                                    THEN "engine" ELSE "check_loading"]
    /\ last' = "cc_check_model"
    /\ UNCHANGED local_recognizer
    /\ UNCHANGED CcRest

\* _load_model: if self._loading: return False, and transcribe returns the
\* failure
CcCheckLoading ==
    /\ \E i \in Callers :
         /\ callers[i].pc = "check_loading"
         /\ callers' =
              IF local_recognizer.loading
              THEN [callers EXCEPT
                      ![i].pc = "result",
                      ![i].result = RecognitionResult(<<>>, ModelLoadFailed)]
              ELSE [callers EXCEPT ![i].pc = "set_loading"]
    /\ last' = "cc_check_loading"
    /\ UNCHANGED local_recognizer
    /\ UNCHANGED CcRest

\* _load_model: self._loading = True, up to the call of WhisperModel(...)
CcSetLoading ==
    /\ \E i \in Callers :
         /\ callers[i].pc = "set_loading"
         /\ callers' = [callers EXCEPT ![i].pc = "constructing",
                                       ![i].name = local_recognizer.model_name]
    /\ local_recognizer' = [local_recognizer EXCEPT !.loading = TRUE]
    /\ last' = "cc_set_loading"
    /\ UNCHANGED CcRest

\* WhisperModel(...) returns and the handle is stored, or it raises and
\* transcribe returns the failure; the finally clause clears the flag
CcLoadEnd ==
    /\ \E i \in Callers, ok \in BOOLEAN :
         /\ callers[i].pc = "constructing"
         /\ IF ok
            THEN /\ local_recognizer' =
                      [local_recognizer EXCEPT !.model = callers[i].name,
                                               !.loading = FALSE]
                 /\ callers' = [callers EXCEPT ![i].pc = "engine",
                                               ![i].name = None]
            ELSE /\ local_recognizer' =
                      [local_recognizer EXCEPT !.loading = FALSE]
                 /\ callers' =
                      [callers EXCEPT
                         ![i].pc = "result", ![i].name = None,
                         ![i].result = RecognitionResult(<<>>, ModelLoadFailed)]
    /\ last' = "cc_load_end"
    /\ UNCHANGED CcRest

\* self._model.transcribe(...) and the result made of it
CcEngine ==
    /\ \E i \in Callers, b \in LocalEngineBehaviours :
         /\ callers[i].pc = "engine"
         /\ callers' =
              [callers EXCEPT
                 ![i].pc = "result",
                 ![i].result = IF local_recognizer.model = None
                               THEN RecognitionResult(<<>>, NoModelError)
                               ELSE local_result(b)]
    /\ last' = "cc_engine"
    /\ UNCHANGED local_recognizer
    /\ UNCHANGED CcRest

\* transcribe has returned to its caller
CcReturn ==
    /\ \E i \in Callers :
         /\ callers[i].pc = "result"
         /\ callers' = [callers EXCEPT ![i].pc = "idle"]
    /\ last' = "cc_return"
    /\ UNCHANGED local_recognizer
    /\ UNCHANGED CcRest

NextCallers ==
    \/ CcCall
    \/ CcCheckModel
    \/ CcCheckLoading
    \/ CcSetLoading
    \/ CcLoadEnd
    \/ CcEngine
    \/ CcReturn

SpecCallers == Init /\ [][NextCallers]_vars

(***************************************************************************)
(* cleanup_text on its own: called with short texts and with the example   *)
(* of its docstring.                                                       *)
(***************************************************************************)
\* the example of the docstring: "um, hello  there ,  how are you"
DocstringExample ==
    <<"u","m",","," ","h","e","l","l","o"," "," ","t","h","e","r","e"," ",",",
      " "," ","h","o","w"," ","a","r","e"," ","y","o","u">>

\* characters of the short texts
CleanupAlphabet == {"u", "m", ",", " ", "h", "."}

\* the texts cleanup_text is called with
CleanupInputs ==
    UNION {[1..n -> CleanupAlphabet] : n \in 0..MaxText} \cup {DocstringExample}

\* one call of cleanup_text(text); its value is kept in injected.  The
\* function keeps no state, so a call after another one shows nothing new
CleanupCall ==
    /\ last = "init"
    /\ \E t \in CleanupInputs :
         /\ recognized' = [kind |-> "result", text |-> t, error |-> None]
         /\ injected' = <<cleanup_text(t)>>
    /\ last' = "cleanup"
    /\ UNCHANGED <<state, message, processing, recorder, open_streams,
                   listener, listeners, pressed_keys, held, hotkey, eventq,
                   workers, timers, cycle, quitted, emitted, terminal,
                   audio_path, found, temp_files, widget, StepVars, handled, uncaught>>
    /\ UNCHANGED RecognizerVars

SpecCleanup == Init /\ [][CleanupCall]_vars

(***************************************************************************)
(* The settings window's signals on their own: the coordinator's handlers  *)
(* of settings_changed, hotkey_changed and widget_size_changed, called in  *)
(* any order.                                                              *)
(***************************************************************************)
\* every setting _on_settings_changed reads may have changed
StSettingsChanged ==
    \E d \in DeviceNames, e \in Engines, m \in ModelNames, k \in ApiKeys :
        on_settings_changed(d, e, m, k)

\* VoiceInputApp._on_hotkey_changed
StHotkeyChanged ==
    /\ ~quitted
    /\ \E h \in HotkeyConfigs :
         LET stopped == HotkeyStop(listener, listeners, pressed_keys)
             started == HotkeyStart(stopped.listener, stopped.listeners)
         IN  /\ hotkey' = h
             /\ pressed_keys' = stopped.pressed_keys
             /\ listener' = started.listener
             /\ listeners' = started.listeners
    /\ last' = "hotkey_changed"
    /\ UNCHANGED <<held, eventq>>
    /\ UNCHANGED <<state, message, processing, recorder, open_streams,
                   workers, timers, cycle, quitted, emitted, injected,
                   terminal, recognized, audio_path, found, RecognizerVars,
                   temp_files, widget, StepVars, handled, uncaught>>

\* VoiceInputApp._on_widget_size_changed
StWidgetSizeChanged ==
    /\ ~quitted
    /\ \E k \in SizeKeys : widget' = set_size(widget, k)
    /\ last' = "widget_size_changed"
    /\ UNCHANGED StepVars
    /\ UNCHANGED <<state, message, processing, recorder, open_streams,
                   listener, listeners, pressed_keys, held, hotkey, eventq,
                   workers, timers, cycle, quitted, emitted, injected,
                   terminal, recognized, audio_path, found, RecognizerVars,
                   temp_files, handled, uncaught>>

NextSettings == StSettingsChanged \/ StHotkeyChanged \/ StWidgetSizeChanged

SpecSettings == Init /\ [][NextSettings]_vars

Next ==
    \/ UIToggle
    \/ HandleToggle
    \/ HandleComplete
    \/ HandleError
    \/ TimerFire
    \/ Quit
    \/ OnPress
    \/ OnRelease
    \/ AudioCallback
    \/ WorkerRun

Spec == Init /\ [][Next]_vars

\* the event loop keeps running: a timer that is due is delivered
LiveSpec == Spec /\ WF_vars(TimerFire)

\* the event loop keeps running and every worker thread comes to its end:
\* the recognizer call returns or raises, and posted events and timers that
\* are due are delivered
LiveSpecWorkers ==
    /\ Spec
    /\ WF_vars(WorkerRun)
    /\ WF_vars(HandleToggle)
    /\ WF_vars(HandleComplete)
    /\ WF_vars(HandleError)
    /\ WF_vars(TimerFire)

TypeOK ==
    /\ state \in {STATE_IDLE, STATE_RECORDING, STATE_PROCESSING, STATE_ERROR}
    /\ processing \in BOOLEAN
    /\ recorder.recording \in BOOLEAN
    /\ Len(recorder.audio_data) <= MaxChunks
    /\ recorder.stream \in {"none", "open", "active"}
    /\ open_streams \in 0..MaxStreams
    /\ held \subseteq Keys \cup HotkeyKeys
    /\ pressed_keys \subseteq Keys \cup HotkeyKeys
    /\ listeners \in 0..1
    /\ cycle \in 0..MaxCycles
    /\ workers \subseteq 1..MaxCycles

(***************************************************************************)
(* Properties                                                              *)
(***************************************************************************)
ToggleSteps == {"toggle", "ui_toggle"}

\* transcriptions in flight: worker threads running, and worker events posted
\* and not yet handled
InFlight ==
    Cardinality(workers)
    + Cardinality({i \in 1..Len(eventq) : eventq[i].kind # "toggle"})

\* C3: start() called while the recorder is recording changes neither the
\* recording flag nor the buffered chunks nor the stream, and after any
\* sequence of start(), stop() and cancel() at most one input stream is open.
C3_StartIdempotentOneStream ==
    [][ /\ open_streams' <= 1
        /\ ((last' = "start" /\ recorder.recording)
              => (recorder' = recorder /\ open_streams' = open_streams)) ]_vars

\* start() has just been called on a recorder that holds chunks and a stream
C3_Witness ==
    /\ last = "start"
    /\ recorder.recording
    /\ recorder.audio_data # <<>>
    /\ recorder.stream = "active"
    /\ open_streams = 1

\* C1: while the processing guard is set (or SessionState is Processing), a
\* toggle from the hotkey or from the UI changes neither SessionState nor the
\* guard, and leaves the capture engine, its streams and the workers alone.
C1_ToggleIgnoredWhileProcessing ==
    [][ ((processing \/ state = STATE_PROCESSING) /\ last' \in ToggleSteps)
          => /\ state' = state
             /\ processing' = processing
             /\ recorder' = recorder
             /\ open_streams' = open_streams
             /\ workers' = workers
             /\ cycle' = cycle ]_vars

\* a toggle was just handled and ignored while a worker was running
C1_Witness ==
    /\ last \in ToggleSteps
    /\ processing /\ state = STATE_PROCESSING
    /\ emitted = <<>>
    /\ workers # {}

\* C2: at most one transcription is in flight; a worker is started only by a
\* toggle that stops an active recording while none is in flight.
C2_AtMostOneInFlight ==
    [][ /\ InFlight' <= 1
        /\ (workers' \ workers # {}
              => /\ InFlight = 0
                 /\ last' \in ToggleSteps
                 /\ recorder.recording /\ ~recorder'.recording) ]_vars

\* a toggle was turned away while a worker's event waited to be handled
C2_Witness ==
    /\ last \in ToggleSteps
    /\ workers = {}
    /\ InFlight = 1
    /\ cycle = 1 /\ handled = 0

\* the recognizer returned no error and a transcript that is empty once trimmed
EmptyTranscript(o) == o.kind = "result" /\ o.error = None /\ Strip(o.text) = <<>>

\* the recognizer returned a transcript with text in it
HasTranscript(o) == o.kind = "result" /\ o.error = None /\ Strip(o.text) # <<>>

\* C4: when the recognizer returns no error and a transcript that is empty
\* after trimming, the event posted for it is not an error event, and once
\* that event is handled the coordinator is Idle with "No speech detected"
\* and nothing was injected.
C4_EmptyTranscriptIsIdle ==
    /\ \A i \in DOMAIN eventq :
         EmptyTranscript(eventq[i].outcome) => eventq[i].kind = "complete"
    /\ EmptyTranscript(recognized)
         => /\ state = STATE_IDLE
            /\ message = "No speech detected"
            /\ injected = <<>>

\* C5: no failure of the capture engine or of the recognizer leaves a handler
\* uncaught; each ends in the Error state.
C5_FailuresBecomeError ==
    /\ ~uncaught
    /\ (recognized.kind = "raise" => state = STATE_ERROR)

\* C6: a cycle whose worker is not running has emitted exactly one terminal
\* event, no cycle emits more than one, and the terminal events are handled
\* in cycle order, each once.
C6_ExactlyOneTerminalEvent ==
    [][ /\ terminal' <= 1
        /\ ((cycle' > 0 /\ workers' = {}) => terminal' = 1)
        /\ (handled' # handled => handled' > handled) ]_vars

\* C7: a handler hands text to injection only when it handles the event of a
\* transcription whose normalized text is non-empty, and then exactly once,
\* with that text; handling an error, an empty transcript or a rejected
\* recording injects nothing.
C7_InjectedOncePerTranscript ==
    injected = IF HasTranscript(recognized) /\ cleanup_text(recognized.text) # <<>>
               THEN <<cleanup_text(recognized.text)>>
               ELSE <<>>

\* a transcript that normalization changed was injected
C7_Witness ==
    /\ last = "complete"
    /\ handled = cycle
    /\ HasTranscript(recognized)
    /\ recognized.text # cleanup_text(recognized.text)
    /\ injected = << <<"H", "i">> >>

\* C8: when the toggle's stop() returns no recording, or one that fails
\* validation, the handler emits Processing and then Error("No audio
\* recorded"), starts no worker and leaves the guard clear; the next toggle
\* is accepted and starts a recording.
C8_RejectedRecordingIsError ==
    [][ /\ ( ( /\ last' \in ToggleSteps
               /\ cycle' = cycle + 1
               /\ ~uncaught'
               /\ (audio_path'.is_none \/ ~validate_audio(audio_path'.path)) )
             => /\ emitted' = << [from |-> STATE_RECORDING,
                                  state |-> STATE_PROCESSING,
                                  message |-> "Processing..."],
                                 [from |-> STATE_PROCESSING,
                                  state |-> STATE_ERROR,
                                  message |-> "No audio recorded"] >>
                /\ state' = STATE_ERROR
                /\ message' = "No audio recorded"
                /\ workers' = workers
                /\ ~processing' )
        /\ ( ( /\ state = STATE_ERROR
               /\ message = "No audio recorded"
               /\ last' \in ToggleSteps )
             => /\ state' = STATE_RECORDING
                /\ recorder'.recording ) ]_vars

\* a recording that failed validation was just rejected
C8_Witness ==
    /\ last \in ToggleSteps
    /\ ~audio_path.is_none
    /\ ~validate_audio(audio_path.path)
    /\ state = STATE_ERROR
    /\ message = "No audio recorded"
    /\ ~processing

\* C9: while the event loop runs, the Error state is always followed by Idle.
C9_ErrorRevertsToIdle ==
    (state = STATE_ERROR) ~> (state = STATE_IDLE \/ quitted)

\* the Error state was just left by an auto-revert timer, the last one pending
C9_Witness ==
    /\ last = "timer"
    /\ emitted = << [from |-> STATE_ERROR, state |-> STATE_IDLE,
                     message |-> "Ready"] >>
    /\ timers = <<>>

\* C10: after quit the recorder is not recording and holds no chunks, the
\* listener is stopped with no key pressed, and SessionState is Idle.
C10_QuitEndsIdle ==
    quitted => /\ ~recorder.recording
               /\ recorder.audio_data = <<>>
               /\ ~listener
               /\ pressed_keys = {}
               /\ state = STATE_IDLE

Modifiers == {"ctrl", "shift", "alt"}
Variants(m) ==
    CASE m = "ctrl" -> {"ctrl_l", "ctrl_r"}
      [] m = "shift" -> {"shift_l", "shift_r", "shift"}
      [] m = "alt" -> {"alt_l", "alt_r", "alt"}

\* hk is a chord: modifier flags and a primary key
IsChord(hk) == DOMAIN hk # {} /\ hk.key # ""

\* every required modifier is held in some variant, no other modifier is
\* held, and the primary key is held
ChordHeld(hk, pressed) ==
    /\ \A m \in Modifiers :
         IF hk[m] THEN Variants(m) \cap pressed # {}
                 ELSE Variants(m) \cap pressed = {}
    /\ LowerKey(hk.key) \in pressed

\* C12: for every chord and every sequence of key events, a key-down the
\* listener reports posts the callback exactly when, with the key added to
\* the pressed set, the chord is held: each required modifier in some
\* variant, no modifier that is not required, and the primary key.
C12_FiresIffChordHeld ==
    [][ (last' = "press" /\ IsChord(hotkey))
          => ((eventq' # eventq) <=> ChordHeld(hotkey, pressed_keys')) ]_vars

\* a chord with two modifiers fired on the right-hand control key, with a
\* key name in upper case in the configuration
C12_Witness ==
    /\ last = "press"
    /\ hotkey = [ctrl |-> TRUE, shift |-> TRUE, alt |-> FALSE, key |-> "A"]
    /\ pressed_keys = {"ctrl_r", "shift", "a"}
    /\ eventq # <<>>

\* C13: the callback is posted once per satisfied transition: only by a
\* key-down that takes the pressed set from not matching the chord to
\* matching it, never by a key-down that finds the chord already held, and
\* never by a key-up.
C13_FiresOncePerTransition ==
    [][ (last' \in {"press", "release"} /\ eventq' # eventq)
          => /\ last' = "press"
             /\ ~check_hotkey(hotkey, pressed_keys) ]_vars

\* C14: stop() leaves the pressed-key set empty and the listener stopped; a
\* key enters the set only by a key-down the listener reports, so the set
\* never holds a key that is not down, and a key held across stop() and
\* start() is not in it.
C14_StopClearsPressedKeys ==
    [][ /\ (last' = "hk_stop" => (pressed_keys' = {} /\ ~listener'))
        /\ (last' = "hk_start" => pressed_keys' = pressed_keys)
        /\ (pressed_keys' \ pressed_keys # {} => last' = "press")
        /\ pressed_keys' \subseteq held' ]_vars

\* every key of the chord is down, one of them since before a stop() and
\* start(): the last key-down did not match
C14_Witness ==
    /\ last = "press"
    /\ listener
    /\ IsChord(hotkey)
    /\ ChordHeld(hotkey, held)
    /\ ~check_hotkey(hotkey, pressed_keys)
    /\ pressed_keys # {}
    /\ eventq = <<>>

\* C15: start() with a listener in place creates no listener and changes
\* neither the chord nor the pressed-key set; there is never more than one
\* listener thread.
C15_StartIdempotent ==
    [][ /\ listeners' <= 1
        /\ ((last' = "hk_start" /\ listener)
              => /\ listener' /\ listeners' = listeners
                 /\ hotkey' = hotkey
                 /\ pressed_keys' = pressed_keys
                 /\ eventq' = eventq) ]_vars

\* start() was called on a manager whose listener had reported keys
C15_Witness ==
    /\ last = "hk_start"
    /\ listener /\ listeners = 1
    /\ pressed_keys # {}

\* C16: start() begins with an empty buffer, every chunk delivered while
\* recording is appended behind the chunks already there, and a stop() that
\* finds chunks and can write its file returns them all, in order, each
\* converted to int16: as many samples as the chunks had together.
C16_StopReturnsAllChunks ==
    [][ LET ad == recorder.audio_data
            ad2 == recorder'.audio_data
            out == audio_path'
        IN  /\ ((last' = "start" /\ ~recorder.recording) => ad2 = <<>>)
            /\ ((last' = "audio" /\ recorder.recording)
                  => /\ Len(ad2) = Len(ad) + 1
                     /\ SubSeq(ad2, 1, Len(ad)) = ad
                     /\ ad2[Len(ad2)] \in ChunkKinds)
            /\ ((last' \in {"start", "set_device"} /\ recorder.recording)
                  => ad2 = ad)
            /\ ((last' = "stop" /\ recorder.recording /\ ad # <<>> /\ ~uncaught')
                  => /\ ~out.is_none
                     /\ Len(out.path) = Len(ad)
                     /\ \A i \in DOMAIN ad :
                          /\ out.path[i].len = ad[i].len
                          /\ out.path[i].amp = ToInt16(ad[i].amp)
                     /\ SampleCount(out.path) = SampleCount(ad)
                     /\ ad2 = <<>>) ]_vars

\* stop() returned two different chunks: half a second of audio
C16_Witness ==
    /\ last = "stop"
    /\ ~audio_path.is_none
    /\ Len(audio_path.path) = 2
    /\ audio_path.path[1] # audio_path.path[2]
    /\ SampleCount(audio_path.path) * 2 = SAMPLE_RATE

\* C17: stop() on a recorder that is not recording returns None and changes
\* nothing; stop() on a recorder that is recording but holds no chunk
\* returns None too, with the recording ended and the stream closed.  No
\* file is written in either case.
C17_StopWithoutAudioIsNone ==
    [][ /\ ((last' = "stop" /\ ~recorder.recording)
              => /\ audio_path' = NoPath
                 /\ ~uncaught'
                 /\ recorder' = recorder
                 /\ open_streams' = open_streams)
        /\ ((last' = "stop" /\ recorder.recording /\ recorder.audio_data = <<>>)
              => /\ audio_path' = NoPath
                 /\ ~uncaught'
                 /\ ~recorder'.recording
                 /\ recorder'.stream = "none"
                 /\ open_streams' = 0) ]_vars

\* stop() found a recorder recording on an active stream with no chunk yet
C17_Witness ==
    /\ last = "stop"
    /\ found.recording /\ found.stream = "active" /\ found.audio_data = <<>>
    /\ audio_path = NoPath
    /\ ~recorder.recording /\ recorder.stream = "none"

\* C18: cancel() in any recorder state raises nothing, returns no recording
\* and leaves the recorder not recording, with an empty buffer and no stream;
\* a cancel() right after it changes nothing and a stop() right after it
\* returns None.
C18_CancelSafeIdempotent ==
    [][ /\ (last' = "cancel"
              => /\ ~recorder'.recording
                 /\ recorder'.audio_data = <<>>
                 /\ recorder'.stream = "none"
                 /\ open_streams' = 0
                 /\ audio_path' = NoPath
                 /\ ~uncaught')
        /\ ((last = "cancel" /\ last' = "cancel")
              => (recorder' = recorder /\ open_streams' = open_streams))
        /\ ((last = "cancel" /\ last' = "stop")
              => (audio_path' = NoPath /\ recorder' = recorder /\ ~uncaught')) ]_vars

\* cancel() found a recorder recording with chunks on an active stream
C18_Witness ==
    /\ last = "cancel"
    /\ found.recording /\ found.stream = "active" /\ found.audio_data # <<>>
    /\ ~recorder.recording /\ recorder.audio_data = <<>>
    /\ recorder.stream = "none" /\ open_streams = 0

\* at least half a second of samples
LongEnough(audio) == SampleCount(audio) * 2 >= SAMPLE_RATE

\* the mean absolute amplitude is at or above the silence threshold
LoudEnough(audio) == AbsSum(audio) >= SilenceThreshold * SampleCount(audio)

\* C19: a recording shorter than half a second is rejected whatever its
\* amplitude; one that is long enough is rejected when its mean absolute
\* amplitude is below the silence threshold and accepted (handed to a
\* worker) when it is at or above it.
C19_ValidationByLengthAndLevel ==
    [][ ( /\ last' \in ToggleSteps
          /\ cycle' = cycle + 1
          /\ ~uncaught'
          /\ ~audio_path'.is_none )
        => LET a == audio_path'.path
               rejected == workers' = workers /\ state' = STATE_ERROR
               accepted == workers' # workers /\ state' = STATE_PROCESSING
           IN  /\ (~LongEnough(a) => rejected)
               /\ ((LongEnough(a) /\ ~LoudEnough(a)) => rejected)
               /\ ((LongEnough(a) /\ LoudEnough(a)) => accepted) ]_vars

\* a recording of exactly half a second whose mean amplitude is exactly the
\* threshold was accepted
C19_Witness ==
    /\ last \in ToggleSteps
    /\ ~audio_path.is_none
    /\ SampleCount(audio_path.path) * 2 = SAMPLE_RATE
    /\ AbsSum(audio_path.path) = SilenceThreshold * SampleCount(audio_path.path)
    /\ workers # {}
    /\ state = STATE_PROCESSING

\* C20: a cached model handle is always one loaded for the configured model
\* name; set_model with another name drops the handle and with the same
\* name keeps it.
C20_CachedHandleMatchesName ==
    [][ /\ (local_recognizer'.model # None
              => local_recognizer'.model = local_recognizer'.model_name)
        /\ ((last' \in {"settings_changed", "set_model"}
              /\ local_recognizer'.model_name # local_recognizer.model_name)
              => local_recognizer'.model = None)
        /\ ((last' \in {"settings_changed", "set_model"}
              /\ local_recognizer'.model_name = local_recognizer.model_name)
              => local_recognizer'.model = local_recognizer.model) ]_vars

\* C21: when the worker reaches the remote recognizer's transcribe and no key
\* is configured, transcribe returns at once the failure that names the
\* missing key: no client is created, the provider is not called and the
\* recognizer is left as it was; the worker posts that failure as an error
\* signal, and the coordinator handling it shows the Error state with the
\* message.
C21_MissingKeyFailsAtOnce ==
    [][ /\ (last' = "api_transcribe" /\ api_recognizer.api_key = ""
              => /\ transcribing'.result = RecognitionResult(<<>>, ApiKeyMissing)
                 /\ ~transcribing'.result.success
                 /\ ~transcribing'.called
                 /\ api_recognizer' = api_recognizer
                 /\ api_recognizer'.client = None)
        /\ (last' = "tr_finish" /\ transcribing.result.error = ApiKeyMissing
              => /\ Len(eventq') = Len(eventq) + 1
                 /\ eventq'[Len(eventq')].kind = "error"
                 /\ eventq'[Len(eventq')].msg = ApiKeyMissing)
        /\ (last' = "error" /\ Head(eventq).msg = ApiKeyMissing
              => /\ state' = STATE_ERROR
                 /\ message' = ApiKeyMissing
                 /\ injected' = <<>>) ]_vars

\* the coordinator shows the missing key of a remote transcription
C21_Witness ==
    /\ last = "error"
    /\ state = STATE_ERROR
    /\ message = ApiKeyMissing
    /\ recognized.error = ApiKeyMissing
    /\ api_recognizer.api_key = ""
    /\ api_recognizer.client = None


\* C22: when WhisperModel(...) raises inside _load_model, transcribe returns
\* the load-failure result for that call and nothing escapes the worker; the
\* loading flag is cleared and no handle is cached.  The flag is set only
\* while a worker is inside the constructor, so a later transcribe that
\* finds no handle starts the load again.
C22_LoadFailureIsPerCall ==
    /\ [](local_recognizer.loading <=> transcribing.pc = "constructing")
    /\ [][ /\ (last' = "load_failed"
                 => /\ transcribing'.pc = "result"
                    /\ transcribing'.result
                         = RecognitionResult(<<>>, ModelLoadFailed)
                    /\ ~transcribing'.result.success
                    /\ ~local_recognizer'.loading
                    /\ local_recognizer'.model = None
                    /\ ~uncaught')
           /\ (last' = "load_begin" /\ local_recognizer.model = None
                 => /\ transcribing'.pc = "constructing"
                    /\ local_recognizer'.loading) ]_vars

\* a load has just failed
C22_Witness ==
    /\ last = "load_failed"
    /\ transcribing.pc = "result"
    /\ transcribing.result.error = ModelLoadFailed
    /\ ~local_recognizer.loading
    /\ local_recognizer.model = None

\* a hint with a region: a language code, "-", and more
RegionQualified(h) == \E i \in 2..Len(h) : h[i] = "-"

\* the base language code of a region-qualified hint: what stands before its
\* first "-"
BaseCode(h) ==
    LET i == CHOOSE k \in 1..Len(h) :
                 h[k] = "-" /\ \A j \in 1..(k - 1) : h[j] # "-"
    IN  SubSeq(h, 1, i - 1)

\* C23 as stated: whenever a recognizer variant has called its engine, a
\* region-qualified hint was handed on as its base language code (en-US as
\* en), the hint "auto" as no language at all, and both variants compute
\* the same language for every hint.
C23_AutoHintUnconstrained ==
    (transcribing.pc = "result" /\ transcribing.called)
       => LET h == transcribing.hint
              l == transcribing.lang
          IN  /\ (RegionQualified(h)
                    => l = [is_none |-> FALSE, code |-> BaseCode(h)])
              /\ (h = <<"a","u","t","o">> => l.is_none)
              /\ \A g \in LanguageHints : local_language(g) = api_language(g)

\* C23, amended: the hint that stands for auto-detection is the default
\* language "en" (DEFAULT_LANGUAGE), or an empty hint; "auto" is no sentinel.
\* Whenever a recognizer variant has called its engine, a region-qualified
\* hint was handed on as its base language code, the default hint and the
\* empty hint as no language at all, and both variants compute the same
\* language for every hint.
C23_DefaultHintUnconstrained ==
    (transcribing.pc = "result" /\ transcribing.called)
       => LET h == transcribing.hint
              l == transcribing.lang
          IN  /\ (RegionQualified(h)
                    => l = [is_none |-> FALSE, code |-> BaseCode(h)])
              /\ (h \in {DEFAULT_LANGUAGE, <<>>} => l.is_none)
              /\ \A g \in LanguageHints : local_language(g) = api_language(g)

\* the remote variant called the provider for the hint en-ZA with "en"
C23_Witness ==
    /\ transcribing.pc = "result"
    /\ transcribing.called
    /\ transcribing.engine = ENGINE_API
    /\ transcribing.hint = <<"e","n","-","Z","A">>
    /\ transcribing.lang = [is_none |-> FALSE, code |-> <<"e","n">>]

\* the provider messages that hold the invalid-credential marker, and those
\* that hold the quota marker, in any case of the letters
WithInvalidKeyMarker == {"invalid_api_key", "Invalid_API_Key: quota"}
WithQuotaMarker == {"Invalid_API_Key: quota", "Quota exceeded"}

\* C24: whenever the provider's call of the remote variant has raised, the
\* result is a failure with empty text whose message is the
\* invalid-credential message when the provider's message holds the
\* invalid-credential marker, otherwise the quota message when it holds the
\* quota marker, and otherwise the provider's message as it is.
C24_ProviderErrorsMapped ==
    (transcribing.pc = "result" /\ transcribing.raw # None)
       => LET raw == transcribing.raw
              r == transcribing.result
          IN  /\ r.text = <<>>
              /\ ~r.success
              /\ r.error = IF raw \in WithInvalidKeyMarker THEN InvalidKeyMessage
                           ELSE IF raw \in WithQuotaMarker THEN QuotaMessage
                           ELSE raw

\* the provider raised a message with both markers
C24_Witness ==
    /\ transcribing.pc = "result"
    /\ transcribing.engine = ENGINE_API
    /\ transcribing.raw = "Invalid_API_Key: quota"
    /\ transcribing.result.error = InvalidKeyMessage

\* the recording cycle is over: its terminal event has been handled and no
\* worker is left
CycleOver == workers = {} /\ handled = cycle /\ ~uncaught

\* C25: at the end of a recording cycle no recording that stop() handed to
\* the coordinator is left behind, whether the transcription succeeded,
\* failed, or was never started.
C25_RecordingsReleased == CycleOver => temp_files = 0

\* C26: set_device during a recording changes neither the open stream and
\* the device it was opened on, nor the recording flag, nor the buffered
\* chunks; a start() that opens a stream opens it on the device configured
\* by then (the default device when that device is not among the inputs).
C26_DeviceChangeWaitsForStart ==
    [][/\ (last' = "set_device" /\ recorder.recording)
            => /\ recorder'.stream = recorder.stream
               /\ recorder'.stream_device = recorder.stream_device
               /\ recorder'.recording = recorder.recording
               /\ recorder'.audio_data = recorder.audio_data
               /\ open_streams' = open_streams
       /\ (last' = "start" /\ ~recorder.recording /\ recorder'.stream = "active")
            => /\ recorder.device \in AvailableDevices \cup {None}
                    => recorder'.stream_device = recorder.device
               /\ recorder.device \notin AvailableDevices
                    => recorder'.stream_device = None]_vars

\* the device was changed while chunks of the default device were buffered
C26_Witness ==
    /\ last = "set_device"
    /\ recorder.recording
    /\ recorder.stream = "active"
    /\ recorder.audio_data # <<>>
    /\ recorder.device = "mic"
    /\ recorder.stream_device = None
    /\ found.device = None

\* "Hello there, how are you"
C27_DocumentedOutput ==
    <<"H","e","l","l","o"," ","t","h","e","r","e",","," ","h","o","w"," ",
      "a","r","e"," ","y","o","u">>

\* C27: cleanup_text gives the outputs its documentation states:
\* "um, hello  there ,  how are you" becomes "Hello there, how are you", and
\* the empty string stays the empty string.
C27_DocumentedExamples ==
    last = "cleanup"
       => /\ recognized.text = DocstringExample
               => injected = <<C27_DocumentedOutput>>
          /\ recognized.text = <<>> => injected = << <<>> >>

\* cleanup_text was called with the example of its docstring
C27_Witness ==
    /\ last = "cleanup"
    /\ recognized.text = DocstringExample
    /\ injected = <<C27_DocumentedOutput>>

\* C28: set_size(k) gives the widget the pixel size the settings window's
\* label and the verification script state for k (compact 60, medium 80,
\* large 100); a key that is not in WIDGET_SIZES leaves the size as it was.
C28_SizeAsLabelled ==
    [][last' = "widget_size_changed"
         => IF widget'.asked \in {"compact", "medium", "large"}
            THEN widget'.size = size_labels[widget'.asked]
            ELSE widget'.size = widget.size]_vars

\* C29: between two handlers of the main thread, and as long as shutdown
\* has not been requested, the recorder is recording exactly when the
\* session state is Recording.
C29_RecordingIffStateRecording ==
    ~quitted => (recorder.recording <=> state = STATE_RECORDING)

\* C30: a toggle handled while the recorder is recording and no
\* transcription is in flight stops the recorder and takes the session to
\* Processing.
C30_ToggleEndsRecording ==
    [][(last' \in {"ui_toggle", "toggle"} /\ recorder.recording
          /\ ~processing /\ workers = {} /\ ~quitted)
         => /\ ~recorder'.recording
            /\ \E i \in DOMAIN emitted' : emitted'[i].state = STATE_PROCESSING]_vars

\* C31: an auto-revert timer that fires while a newer cycle has the session
\* in Recording or Processing leaves the session state as it is.
C31_StaleRevertKeepsState ==
    [][(last' = "timer" /\ state \in {STATE_RECORDING, STATE_PROCESSING})
         => state' = state]_vars

\* a worker is inside the recognizer call it selected
InRecognizerCall == transcribing.pc \in {"load", "constructing", "engine", "api"}

\* C32: settings applied by the main thread while a transcription is inside
\* its recognizer call leave alone what that call works with (the local
\* recognizer's model name and handle, the remote recognizer's key), so the
\* call never finds its model handle gone; the next transcription hands the
\* changed model or key to its recognizer.
C32_InFlightTranscriptionUnaffected ==
    /\ [][(last' = "settings_changed" /\ InRecognizerCall)
            => /\ transcribing.engine = ENGINE_LOCAL
                    => local_recognizer' = local_recognizer
               /\ transcribing.engine = ENGINE_API
                    => api_recognizer'.api_key = api_recognizer.api_key]_vars
    /\ [](transcribing.pc = "result"
            => transcribing.result.error # NoModelError)
    /\ [][/\ last' = "set_model"
               => local_recognizer'.model_name = settings_model
          /\ last' = "set_api_key"
               => api_recognizer'.api_key = settings_api_key]_vars

\* C37: a start() that fails to open or to start the input stream leaves
\* the recorder not recording and without a stream.
C37_FailedStartNotRecording ==
    (last = "start" /\ uncaught)
       => (~recorder.recording /\ recorder.stream = "none")

\* steps of the keyboard listener, the audio callback and a worker thread
OffMainSteps == {"press", "release", "audio", "worker"}

\* C34: the session state and the processing guard are written on the main
\* thread alone.  A step of the keyboard listener, of the audio callback or
\* of a worker changes neither; all it leaves for the coordinator is at most
\* one message at the end of the queue; a worker's result changes the state
\* only when a handler of the main thread takes its message off the queue.
C34_StateWrittenOnMainThreadOnly ==
    [][/\ last' \in OffMainSteps
            => /\ state' = state
               /\ message' = message
               /\ processing' = processing
               /\ \/ eventq' = eventq
                  \/ /\ Len(eventq') = Len(eventq) + 1
                     /\ SubSeq(eventq', 1, Len(eventq)) = eventq
       /\ (state' # state \/ processing' # processing)
            => last' \notin OffMainSteps
       /\ last' \in {"complete", "error"}
            => /\ eventq # <<>>
               /\ eventq' = Tail(eventq)
               /\ Head(eventq).kind = last']_vars

\* a worker has just posted its result; the session is still in Processing
C34_Witness ==
    /\ last = "worker"
    /\ state = STATE_PROCESSING
    /\ processing
    /\ workers = {}
    /\ Len(eventq) > 0
    /\ eventq[Len(eventq)].kind = "complete"

\* C38: as long as the event loop runs and the recognizer call ends, the
\* processing guard that an accepted stop has set is cleared again.
C38_GuardEventuallyCleared ==
    processing ~> (~processing \/ quitted)


\* the session and the lateness recorded for every chunk kept anywhere
KeptTags == steps.tags \o steps.taken_tags \o steps.written

\* C33: the audio callback appends its chunk only when the recording flag
\* is true as it handles the chunk, and a chunk the stream delivers after
\* stop() or cancel() cleared the flag and before the stream is closed is
\* dropped: it is in no buffer and in no finished recording, whatever the
\* interleaving of the callback thread and the main thread.
C33_LateChunksDropped ==
    /\ [](\A i \in DOMAIN KeptTags : ~KeptTags[i].late)
    /\ [](Len(steps.tags) = Len(recorder.audio_data))
    /\ [][(steps.cb = "locked" /\ steps'.cb = "idle")
            => recorder'.audio_data
                 = IF recorder.recording
                   THEN Append(recorder.audio_data, steps.chunk)
                   ELSE recorder.audio_data]_vars

\* a chunk delivered between the cleared flag and the halted stream has
\* been dropped while stop() waits for the stream, with chunks recorded
C33_Witness ==
    /\ last = "cb_dropped"
    /\ steps.late
    /\ steps.pc = "stop_halt"
    /\ recorder.stream = "active"
    /\ recorder.audio_data # <<>>


\* the next step of the method the main thread is in
RsMainStep ==
    \/ RsStartFlag
    \/ RsStartOpen
    \/ RsStopFlag
    \/ RsStopHalt
    \/ RsStopTake
    \/ RsStopWrite
    \/ RsCancelFlag
    \/ RsCancelHalt
    \/ RsIsRecording

\* the next step of a callback the stream has invoked
RsCallbackStep == RsCbLock \/ RsCbBody

\* C36: the audio callback thread and start(), stop(), cancel() and
\* is_recording() on the main thread never deadlock: while the main thread
\* is inside one of them, it or the callback in progress can take a step;
\* the main thread does not hold the lock while it waits for the stream to
\* halt; and the callback that holds the lock, level observer included,
\* finishes without waiting for the main thread.
C36_NoDeadlock ==
    /\ steps.pc # "idle" => (ENABLED RsMainStep \/ ENABLED RsCallbackStep)
    /\ steps.cb # "idle" => (ENABLED RsCallbackStep \/ ENABLED RsMainStep)
    /\ steps.pc \in {"stop_halt", "cancel_halt"} => steps.lock # "main"
    /\ steps.cb = "locked" => ENABLED RsCbBody
    /\ steps.lock = "callback" <=> steps.cb = "locked"

\* stop() waits for the stream to halt while a callback waits for the lock
C36_Witness ==
    /\ steps.pc = "stop_halt"
    /\ steps.cb = "waiting"
    /\ ~ENABLED RsStopHalt
    /\ ENABLED RsCbLock


\* C40: a finished recording holds chunks of the session that stop() ended
\* and of no other: none of an earlier session, none of a cancelled one,
\* none that an earlier stop() already wrote; the buffer is empty when
\* start() begins a session, and between sessions.
C40_SessionsKeptApart ==
    /\ [](\A i \in DOMAIN steps.tags : steps.tags[i].session = steps.session)
    /\ []((steps.pc = "idle" /\ ~recorder.recording)
            => recorder.audio_data = <<>>)
    /\ [][steps'.session # steps.session
            => (recorder'.audio_data = <<>> /\ recorder'.recording)]_vars
    /\ [][(last' = "stop_write" /\ ~audio_path'.is_none)
            => /\ steps'.written # <<>>
               /\ \A i \in DOMAIN steps'.written :
                    steps'.written[i].session = steps.session
               /\ steps.session \notin steps.consumed
               /\ steps.session \notin steps.cancelled]_vars

\* the second session is written after the first one was, each with chunks
C40_Witness ==
    /\ last = "stop_write"
    /\ ~audio_path.is_none
    /\ steps.session = 2
    /\ steps.consumed = {1, 2}
    /\ steps.written # <<>>


\* C35: the callback of a matched chord runs on a thread of its own: the
\* listener's step for the key event posts nothing itself, leaves its lock
\* free, and while a callback started earlier has not finished the running
\* listener goes on handling key-down and key-up events.
C35_CallbackOffListenerThread ==
    /\ [](callbacks.running > 0 => callbacks.lock = "free")
    /\ []((callbacks.running > 0 /\ listeners > 0)
            => /\ callbacks.running <= MaxQueue => ENABLED HtPress
               /\ held # {} => ENABLED HtRelease)
    /\ [][last' \in {"press", "release"} => eventq' = eventq]_vars
    /\ [][(last' = "press" /\ check_hotkey(hotkey, pressed_keys'))
            => callbacks'.running = callbacks.running + 1]_vars

\* a key-up event was handled while a callback started earlier still runs
C35_Witness ==
    /\ last = "release"
    /\ callbacks.running > 0
    /\ ~check_hotkey(hotkey, pressed_keys)


\* C39: a call of transcribe that finds a load begun by another call in
\* progress does not return a failure for it, and the model is not being
\* loaded by two calls at once.
C39_SecondCallerReusesLoad ==
    /\ [][\A i \in Callers :
            (callers[i].pc = "check_loading" /\ local_recognizer.loading)
              => callers'[i].pc # "result"]_vars
    /\ [](\A i, j \in Callers :
            (callers[i].pc = "constructing" /\ callers[j].pc = "constructing")
              => i = j)

====
